---- MODULE Spec2Model ----
(***************************************************************************)
(* Tomasulo simulator with reorder buffer (src/simulator.py, src/core.py). *)
(* One step() is modelled as its four stages run in the code's order:      *)
(* commit, write_back, execute, dispatch.  The variable stage records      *)
(* which stage of the current step() runs next ("idle" = between steps).   *)
(***************************************************************************)
EXTENDS Integers, Sequences, FiniteSets, TLC

\* ------------------------------------------------------------------------
\* Bounds of the exploration
\* ------------------------------------------------------------------------
MaxLen == 3
MaxCycle == 12
MaxArithLen == 4
MaxTotal == 3
MaxLongCycle == 32

\* ------------------------------------------------------------------------
\* Program constants
\* ------------------------------------------------------------------------
issue_width == 4
rob_size == 16
table_size == 64

\* ------------------------------------------------------------------------
\* Numeric values.  A Python number is modelled by its exact value, a dyadic
\* rational.  A value n / d with d a power of two, |n| < 2^SmallBits and
\* d <= 2^SmallBits is the pair <<n, d>> in lowest terms; every other value
\* is the triple <<sign, mantissa, exponent>> = sign * mantissa * 2^exponent,
\* the mantissa an odd natural number written in limbs of LimbBits bits,
\* lowest first.  None is <<0, 0>>.  Whole numbers are added, subtracted and
\* multiplied exactly at any size (Python int); every other result, and every
\* quotient, is a float: rounded to the 53-bit significand of an IEEE
\* double, ties to even.  Exponents stay far inside the range of a double,
\* and whole floats stay below 2^53, in every run of the model, so overflow,
\* subnormal numbers and the rounding of whole floats are not modelled.
\* ------------------------------------------------------------------------
None == <<0, 0>>

SmallBits == 14

\* bits of the significand of a float
Significand == 53

LimbBits == 15

Abs(n) == IF n < 0 THEN -n ELSE n

RECURSIVE GCD(_, _)
GCD(a, b) == IF b = 0 THEN a ELSE GCD(b, a % b)

Norm(n, d) ==
    LET g == GCD(Abs(n), Abs(d))
        s == IF d < 0 THEN -1 ELSE 1
    IN  <<(s * n) \div g, (s * d) \div g>>

Pow2(k) ==
    <<1, 2, 4, 8, 16, 32, 64, 128, 256, 512, 1024, 2048, 4096, 8192, 16384, 32768,
      65536, 131072, 262144, 524288, 1048576, 2097152, 4194304, 8388608, 16777216,
      33554432, 67108864, 134217728, 268435456, 536870912, 1073741824>>[k + 1]

RECURSIVE Log2(_)
Log2(d) == IF d <= 1 THEN 0 ELSE 1 + Log2(d \div 2)

\* ---- natural numbers of any size, as limbs of LimbBits bits, lowest first ----
RECURSIVE LimbsOf(_)
LimbsOf(n) == IF n = 0 THEN <<>> ELSE <<n % Pow2(LimbBits)>> \o LimbsOf(n \div Pow2(LimbBits))

RECURSIVE LimbsVal(_)
LimbsVal(a) == IF a = <<>> THEN 0 ELSE Head(a) + Pow2(LimbBits) * LimbsVal(Tail(a))

\* without leading zero limbs
RECURSIVE Trim(_)
Trim(a) == IF a = <<>> \/ a[Len(a)] # 0 THEN a ELSE Trim(SubSeq(a, 1, Len(a) - 1))

LimbAt(a, i) == IF i <= Len(a) THEN a[i] ELSE 0

RECURSIVE AddFrom(_, _, _, _)
AddFrom(a, b, i, carry) ==
    IF i > Len(a) /\ i > Len(b) THEN (IF carry = 0 THEN <<>> ELSE <<carry>>)
    ELSE LET t == LimbAt(a, i) + LimbAt(b, i) + carry
         IN  <<t % Pow2(LimbBits)>> \o AddFrom(a, b, i + 1, t \div Pow2(LimbBits))

LAdd(a, b) == AddFrom(a, b, 1, 0)

RECURSIVE SubFrom(_, _, _, _)
SubFrom(a, b, i, borrow) ==
    IF i > Len(a) THEN <<>>
    ELSE LET t == LimbAt(a, i) - LimbAt(b, i) - borrow
         IN  <<(t + Pow2(LimbBits)) % Pow2(LimbBits)>> \o SubFrom(a, b, i + 1, IF t < 0 THEN 1 ELSE 0)

\* a - b for a >= b
LSub(a, b) == Trim(SubFrom(a, b, 1, 0))

RECURSIVE LessFrom(_, _, _)
LessFrom(a, b, i) ==
    IF i = 0 THEN FALSE
    ELSE IF a[i] # b[i] THEN a[i] < b[i] ELSE LessFrom(a, b, i - 1)

LLess(a, b) == IF Len(a) # Len(b) THEN Len(a) < Len(b) ELSE LessFrom(a, b, Len(a))

RECURSIVE MulFrom(_, _, _, _)
MulFrom(a, d, i, carry) ==
    IF i > Len(a) THEN (IF carry = 0 THEN <<>> ELSE <<carry>>)
    ELSE LET t == a[i] * d + carry
         IN  <<t % Pow2(LimbBits)>> \o MulFrom(a, d, i + 1, t \div Pow2(LimbBits))

\* a * d for one limb d
MulLimb(a, d) == IF d = 0 THEN <<>> ELSE MulFrom(a, d, 1, 0)

RECURSIVE LMul(_, _)
LMul(a, b) ==
    IF a = <<>> \/ b = <<>> THEN <<>>
    ELSE LET rest == LMul(a, Tail(b))
         IN  LAdd(MulLimb(a, Head(b)), IF rest = <<>> THEN <<>> ELSE <<0>> \o rest)

\* the largest d + x with x < 2^t and (d + x) * b <= rem
RECURSIVE DigitFrom(_, _, _, _)
DigitFrom(rem, b, t, d) ==
    IF t = 0 THEN d
    ELSE IF LLess(rem, MulLimb(b, d + Pow2(t - 1))) THEN DigitFrom(rem, b, t - 1, d)
    ELSE DigitFrom(rem, b, t - 1, d + Pow2(t - 1))

\* rem \div b for rem < b * 2^LimbBits
Digit(rem, b) ==
    IF LLess(rem, b) THEN 0
    ELSE IF Len(rem) <= 2 THEN LimbsVal(rem) \div LimbsVal(b)
    ELSE DigitFrom(rem, b, LimbBits, 0)

\* long division: <<quotient limbs, remainder>> of the limbs i..1 of a
\* brought down onto the remainder rem < b
RECURSIVE DivFrom(_, _, _, _)
DivFrom(a, b, i, rem) ==
    IF i = 0 THEN <<<<>>, rem>>
    ELSE LET r1 == Trim(<<a[i]>> \o rem)
             d == Digit(r1, b)
             r == DivFrom(a, b, i - 1, LSub(r1, MulLimb(b, d)))
         IN  <<r[1] \o <<d>>, r[2]>>

\* <<a \div b, a % b>> for b # 0
LDivMod(a, b) ==
    LET r == DivFrom(a, b, Len(a), <<>>)
    IN  <<Trim(r[1]), r[2]>>

\* a * 2^k
Shl(a, k) ==
    LET m == MulLimb(a, Pow2(k % LimbBits))
    IN  IF a = <<>> \/ k < LimbBits THEN m ELSE [i \in 1..(k \div LimbBits) |-> 0] \o m

\* a \div 2^k
Shr(a, k) ==
    IF k \div LimbBits >= Len(a) THEN <<>>
    ELSE LDivMod(SubSeq(a, k \div LimbBits + 1, Len(a)), <<Pow2(k % LimbBits)>>)[1]

\* number of bits of a
BitLen(a) == IF a = <<>> THEN 0 ELSE LimbBits * (Len(a) - 1) + Log2(a[Len(a)]) + 1

\* bit i of a, bit 0 the lowest
BitAt(a, i) == (LimbAt(a, i \div LimbBits + 1) \div Pow2(i % LimbBits)) % 2

\* number of zero bits below the lowest one bit of a # 0
TrailingZeros(a) ==
    CHOOSE i \in 0..BitLen(a) : BitAt(a, i) = 1 /\ \A j \in 0..(i - 1) : BitAt(a, j) = 0

\* ---- values ----
IsSmall(v) == Len(v) = 2

\* the value as <<sign, mantissa, exponent>>
Dy(v) ==
    IF IsSmall(v)
    THEN <<IF v[1] < 0 THEN -1 ELSE 1, LimbsOf(Abs(v[1])), 0 - Log2(v[2])>>
    ELSE v

\* the one representation of the value sign * mantissa * 2^exponent
Canon(x) ==
    LET m0 == Trim(x[2]) IN
    IF m0 = <<>> THEN <<0, 1>>
    ELSE LET tz == TrailingZeros(m0)
             m == Shr(m0, tz)
             e == x[3] + tz
         IN  IF e <= 0 /\ 0 - e <= SmallBits /\ BitLen(m) <= SmallBits
             THEN <<x[1] * LimbsVal(m), Pow2(0 - e)>>
             ELSE IF e > 0 /\ BitLen(m) + e <= SmallBits
             THEN <<x[1] * LimbsVal(m) * Pow2(e), 1>>
             ELSE <<x[1], m, e>>

InSmall(r) == Abs(r[1]) < Pow2(SmallBits) /\ r[2] <= Pow2(SmallBits)

\* the value is a whole number
DyIsInt(x) == Trim(x[2]) = <<>> \/ TrailingZeros(Trim(x[2])) + x[3] >= 0

\* round to nearest, ties to even, at Significand bits; sticky tells that the
\* exact value lies above sign * mantissa * 2^exponent in magnitude
Round53(x, sticky) ==
    LET m == Trim(x[2])
        t == BitLen(m) - Significand
    IN  IF t <= 0 THEN <<x[1], m, x[3]>>
        ELSE LET kept == Shr(m, t)
                 rest == sticky \/ TrailingZeros(m) < t - 1
                 up == BitAt(m, t - 1) = 1 /\ (rest \/ kept[1] % 2 = 1)
             IN  <<x[1], IF up THEN LAdd(kept, <<1>>) ELSE kept, x[3] + t>>

\* exact sum
DyAdd(x, y) ==
    LET e == IF x[3] <= y[3] THEN x[3] ELSE y[3]
        mx == Shl(Trim(x[2]), x[3] - e)
        my == Shl(Trim(y[2]), y[3] - e)
    IN  IF x[1] = y[1] THEN <<x[1], LAdd(mx, my), e>>
        ELSE IF LLess(mx, my) THEN <<y[1], LSub(my, mx), e>>
        ELSE <<x[1], LSub(mx, my), e>>

\* exact product
DyMul(x, y) == <<x[1] * y[1], LMul(Trim(x[2]), Trim(y[2])), x[3] + y[3]>>

\* quotient to Significand + 2 bits at least, with what is left over:
\* <<sign, quotient, exponent, sticky>>
DyDiv(x, y) ==
    LET mx == Trim(x[2])
        my == Trim(y[2])
        need == Significand + 2 + BitLen(my) - BitLen(mx)
        k == IF need > 0 THEN need ELSE 0
        qr == LDivMod(Shl(mx, k), my)
    IN  <<x[1] * y[1], qr[1], x[3] - y[3] - k, qr[2] # <<>> >>

\* int or float addition, subtraction, multiplication of two values
Arith(exact, x, y) == Canon(IF DyIsInt(x) /\ DyIsInt(y) THEN exact ELSE Round53(exact, FALSE))

\* the int n
Num(n) ==
    IF Abs(n) < Pow2(SmallBits) THEN <<n, 1>>
    ELSE LET tz == CHOOSE k \in 0..30 : Abs(n) % Pow2(k) = 0 /\ (Abs(n) \div Pow2(k)) % 2 = 1
         IN  <<IF n < 0 THEN -1 ELSE 1, LimbsOf(Abs(n) \div Pow2(tz)), tz>>

IsNum(v) == v # None

\* vj + vk
VAdd(a, b) ==
    LET r == Norm(a[1] * b[2] + b[1] * a[2], a[2] * b[2])
    IN  IF IsSmall(a) /\ IsSmall(b) /\ InSmall(r) THEN r
        ELSE Arith(DyAdd(Dy(a), Dy(b)), Dy(a), Dy(b))

\* vj - vk
VSub(a, b) == VAdd(a, IF IsSmall(b) THEN <<0 - b[1], b[2]>> ELSE <<0 - b[1], b[2], b[3]>>)

\* vj * vk
VMul(a, b) ==
    LET r == Norm(a[1] * b[1], a[2] * b[2])
    IN  IF IsSmall(a) /\ IsSmall(b) /\ InSmall(r) THEN r
        ELSE Arith(DyMul(Dy(a), Dy(b)), Dy(a), Dy(b))

\* vj / vk for vk # 0: true division, the float nearest to the quotient
Quotient(a, b) ==
    LET r == Norm(a[1] * b[2], a[2] * b[1])
        q == DyDiv(Dy(a), Dy(b))
    IN  IF IsSmall(a) /\ IsSmall(b) /\ Pow2(Log2(r[2])) = r[2] /\ InSmall(r) THEN r
        ELSE Canon(Round53(<<q[1], q[2], q[3]>>, q[4]))

\* variant of VDiv: a zero divisor gives no result
VDiv_zeroIsNone(a, b) == IF b = <<0, 1>> THEN None ELSE Quotient(a, b)

\* vj / vk if vk != 0 else 0
VDiv(a, b) == IF b = <<0, 1>> THEN <<0, 1>> ELSE Quotient(a, b)

\* Python int(x): truncation toward zero
PyInt(v) ==
    IF IsSmall(v)
    THEN (IF v[1] >= 0 THEN v[1] \div v[2] ELSE -((-v[1]) \div v[2]))
    ELSE v[1] * LimbsVal(IF v[3] >= 0 THEN Shl(v[2], v[3]) ELSE Shr(v[2], 0 - v[3]))

\* ------------------------------------------------------------------------
\* Instructions: the decoded fields of Instruction, label included.  An
\* instruction's raw_text is identified with these fields: the model's
\* program texts carry no comment and no variation of spacing, so two lines
\* have the same raw_text exactly when they have the same label prefix and
\* the same decoded form.
\* ------------------------------------------------------------------------
NoReg == "None"
NoTag == -1
NoLabel == "None"

IntRegs == {"R0", "R1", "R2", "R3"}
FpRegs == {"F0"}

Instr(op, rd, rs, rt, imm, target) ==
    [opcode |-> op, rd |-> rd, rs |-> rs, rt |-> rt, imm |-> imm, target |-> target,
     label |-> NoLabel]

Arith3(op, rd, rs, rt) == Instr(op, rd, rs, rt, 0, NoLabel)
ArithI(op, rd, rs, imm) == Instr(op, rd, rs, NoReg, imm, NoLabel)
Mem(op, rd, imm, rs) == Instr(op, rd, rs, NoReg, imm, NoLabel)
Br2(op, rs, rt, target) == Instr(op, NoReg, rs, rt, 0, target)
Bnez(rs, target) == Instr("BNEZ", NoReg, rs, NoReg, 0, target)
Hlt == Instr("HLT", NoReg, NoReg, NoReg, 0, NoLabel)

\* ------------------------------------------------------------------------
\* Programs offered to load_instructions.  A load is the decoded instruction
\* list together with the label table built from the text.  A label that
\* names an instruction is written in front of it on the same line
\* ("L: BEQ R0,R0,L"), so that it is part of that instruction's raw_text; a
\* label that names the end of the program is a line of its own.
\* ------------------------------------------------------------------------
\* Instruction.label of the line decoded as instruction number idx
LabelAt(labs, idx) ==
    IF \E l \in DOMAIN labs : labs[l] = idx
    THEN CHOOSE l \in DOMAIN labs : labs[l] = idx
    ELSE NoLabel

Load(prog, labs) ==
    [instructions |-> [i \in 1..Len(prog) |-> [prog[i] EXCEPT !.label = LabelAt(labs, i - 1)]],
     labels |-> labs]

NoLabels == [l \in {} |-> 0]

OneLabel(l, i) == [x \in {l} |-> i]

\* Instructions the free-form programs are built from.  Label "L" is defined
\* somewhere in the text (any position, also after the last instruction);
\* label "X" is defined nowhere.
Pool ==
    { ArithI("ADDI", "R1", "R0", 7),
      ArithI("ADDI", "R2", "R1", 1),
      Arith3("MUL", "R1", "R1", "R2"),
      Arith3("DIV", "R2", "R1", "R0"),
      Mem("LD", "F0", 0, "R1"),
      Mem("SD", "R1", 0, "R0"),
      Br2("BEQ", "R0", "R0", "L"),
      Bnez("R1", "X"),
      Hlt }

RECURSIVE SeqsUpTo(_, _)
SeqsUpTo(S, n) ==
    IF n = 0 THEN {<<>>}
    ELSE LET shorter == SeqsUpTo(S, n - 1)
         IN  shorter \cup {Append(p, i) : p \in {q \in shorter : Len(q) = n - 1}, i \in S}

UsesLabel(prog, l) == \E i \in 1..Len(prog) : prog[i].target = l

BranchOps == {"BNE", "BEQ", "BNEZ"}

BranchTexts(prog) == {prog[i] : i \in {j \in 1..Len(prog) : prog[j].opcode \in BranchOps}}

MaxBranchLines == 1

\* Instructions that accompany a branch in the free-form programs
BranchPool ==
    { ArithI("ADDI", "R1", "R0", 7),
      Mem("LD", "F0", 0, "R1"),
      Mem("SD", "R1", 0, "R0"),
      Br2("BEQ", "R0", "R0", "L"),
      Bnez("R1", "X"),
      Hlt }

FreeLoads(pool) ==
    UNION { IF UsesLabel(prog, "L")
            THEN {Load(prog, OneLabel("L", i)) : i \in 0..Len(prog)}
            ELSE {Load(prog, NoLabels)}
          : prog \in SeqsUpTo(pool, MaxLen) }

\* Every branch-free program over Pool, and every program over BranchPool
\* with at most MaxBranchLines different branch lines.
PoolLoads ==
    {ld \in FreeLoads(Pool) : BranchTexts(ld.instructions) = {}}
    \cup {ld \in FreeLoads(BranchPool)
            : Cardinality(BranchTexts(ld.instructions)) <= MaxBranchLines}

\* The end-to-end programs named by the documentation (section 8).
ScenarioAddiChain ==
    Load(<<ArithI("ADDI", "R1", "R0", 5), ArithI("ADDI", "R2", "R1", 7), Hlt>>, NoLabels)

ScenarioRaw ==
    Load(<<Arith3("ADD", "R3", "R0", "R0"), ArithI("ADDI", "R1", "R0", 4),
           ArithI("ADDI", "R2", "R1", 6), Hlt>>, NoLabels)

ScenarioMemory ==
    Load(<<ArithI("ADDI", "R1", "R0", 7), Mem("SD", "R1", 0, "R0"),
           Mem("LD", "R2", 0, "R0"), Hlt>>, NoLabels)

ScenarioLoop ==
    Load(<<ArithI("ADDI", "R1", "R0", 1), ArithI("SUBI", "R1", "R1", 1),
           Bnez("R1", "LOOP"), Hlt>>, OneLabel("LOOP", 1))

ScenarioSkip ==
    Load(<<ArithI("ADDI", "R1", "R0", 0), Bnez("R1", "SKIP"),
           ArithI("ADDI", "R2", "R0", 9), Hlt>>, OneLabel("SKIP", 3))

ScenarioDivZero ==
    Load(<<ArithI("ADDI", "R1", "R0", 10), ArithI("ADDI", "R2", "R0", 0),
           Arith3("DIV", "R3", "R1", "R2"), Hlt>>, NoLabels)

Scenarios ==
    {ScenarioAddiChain, ScenarioRaw, ScenarioMemory, ScenarioLoop, ScenarioSkip,
     ScenarioDivZero}

\* more instructions than issue_width, all ready behind a slow head
ScenarioWide ==
    Load(<<Arith3("MUL", "R3", "R0", "R0"), ArithI("ADDI", "R1", "R0", 1),
           ArithI("ADDI", "R2", "R0", 2), ArithI("ADDI", "R1", "R1", 3),
           Mem("SD", "R2", 0, "R0"), Hlt>>, NoLabels)

Loads == PoolLoads \cup Scenarios \cup {ScenarioWide}

\* Branch-free arithmetic programs ending in HLT
ArithPool ==
    { ArithI("ADDI", "R1", "R0", 5),
      ArithI("ADDI", "R2", "R1", 7),
      Arith3("ADD", "R3", "R1", "R2"),
      Arith3("SUB", "R1", "R2", "R1"),
      ArithI("SUBI", "R2", "R2", 3),
      Arith3("MUL", "R2", "R1", "R2"),
      Arith3("DIV", "R3", "R1", "R2") }

ArithLoads ==
    {Load(Append(prog, Hlt), NoLabels) : prog \in SeqsUpTo(ArithPool, MaxArithLen)}
        \cup {ScenarioAddiChain, ScenarioRaw, ScenarioDivZero}

\* ------------------------------------------------------------------------
\* State
\* ------------------------------------------------------------------------
VARIABLES
    instructions,      \* TomasuloSimulator.instructions (decoded program)
    labels,            \* TomasuloSimulator.labels: label -> instruction index
    pc, finished, halted, cycle, stalls, committed,
    int_regs, fp_regs, \* RegisterFile values
    int_tags, fp_tags, \* RegisterFile producer tags (ROB id or NoTag)
    memory,            \* TomasuloSimulator.memory (sparse: address -> value)
    reservation_stations,
    functional_units,
    rob,               \* ReorderBuffer.entries
    next_id,           \* ReorderBuffer.next_id
    waiting_wb,        \* stations whose countdown reached 0, in finishing order
    correct, total,    \* BranchPredictor totals
    prediction_table,  \* BranchPredictor.prediction_table
    hashv,             \* hash(raw_text) % table_size of each branch text
    stage,             \* position inside step()
    dispLog,           \* history: ROB ids in allocation order
    commitLog,         \* history: ROB ids in retirement order
    flushedSeqs,       \* history: positions of dispLog discarded by a flush
    lastCommit,        \* history: what the last commit stage did
    calls,             \* history: step() calls made since the last load or reset
    firstRun,          \* history: what the run ended by reset() had produced
    lastWritten        \* history: per register, the result of its last retired writer

vars ==
    <<instructions, labels, pc, finished, halted, cycle, stalls, committed,
      int_regs, fp_regs, int_tags, fp_tags, memory, reservation_stations,
      functional_units, rob, next_id, waiting_wb, correct, total,
      prediction_table, hashv, stage, dispLog, commitLog, flushedSeqs, lastCommit,
      calls, firstRun, lastWritten>>

\* Reservation stations in declaration order (TomasuloSimulator.__init__)
RSDecl ==
    << [name |-> "ADD0", op_type |-> "ADD"], [name |-> "ADD1", op_type |-> "ADD"],
       [name |-> "ADD2", op_type |-> "ADD"],
       [name |-> "MUL0", op_type |-> "MUL"], [name |-> "MUL1", op_type |-> "MUL"],
       [name |-> "LOAD0", op_type |-> "LOAD"], [name |-> "LOAD1", op_type |-> "LOAD"],
       [name |-> "STORE0", op_type |-> "STORE"], [name |-> "STORE1", op_type |-> "STORE"],
       [name |-> "BR0", op_type |-> "BRANCH"] >>

RSIds == 1..Len(RSDecl)

NoInstr == -1
NoRS == 0

\* ReservationStation.clear / the fields set by ReservationStation.__init__
FreeRS ==
    [busy |-> FALSE, op |-> "None", Vj |-> None, Vk |-> None, Qj |-> NoTag,
     Qk |-> NoTag, dest |-> NoTag, instr |-> NoInstr, exec_cycles |-> 0,
     remaining |-> 0, ready |-> FALSE, result |-> None, rob_idx |-> NoTag]

\* Functional-unit classes in dictionary order, with the slots of each class
FUClasses == <<"ADD", "MUL", "LOAD", "STORE", "BRANCH">>

FUCount(t) == IF t = "BRANCH" THEN 1 ELSE 2

IdleFU == [rs |-> NoRS, busy |-> FALSE]

InitFUs == [t \in {FUClasses[i] : i \in 1..Len(FUClasses)} |-> [k \in 1..FUCount(t) |-> IdleFU]]

\* ROBEntry.__init__
NoOutcome == [set |-> FALSE, taken |-> FALSE, target |-> -1]

NewROBEntry(idx, instr, dest, seq) ==
    [idx |-> idx, instr |-> instr, dest |-> dest, ready |-> FALSE, state |-> "ISSUE",
     result |-> None, store_value |-> None, branch_outcome |-> NoOutcome,
     address |-> None, address_ready |-> FALSE, mispredicted |-> FALSE, seq |-> seq]

InitMemory == [a \in {8 * i : i \in 0..15} |-> Num(1)]

\* hash(raw_text) % table_size: any index of the table, fixed for the run
HashVals == 0..(table_size - 1)

\* nothing retired, no mispredicted branch met at the head
NoCommit ==
    [flushed |-> FALSE, new_pc |-> 0, retired |-> 0, misp |-> FALSE,
     mtaken |-> FALSE, mtarget |-> -1, minstr |-> -1]

\* no reset() has been called since the load
NoRun == [reset |-> FALSE]

\* State after load_instructions(lines): program stored, reset_state() run
InitHashed(ld, indexes) ==
    /\ instructions = ld.instructions
    /\ labels = ld.labels
    /\ pc = 0
    /\ finished = FALSE
    /\ halted = FALSE
    /\ cycle = 0
    /\ stalls = 0
    /\ committed = 0
    /\ int_regs = [r \in IntRegs |-> Num(0)]
    /\ fp_regs = [r \in FpRegs |-> Num(0)]
    /\ int_tags = [r \in IntRegs |-> NoTag]
    /\ fp_tags = [r \in FpRegs |-> NoTag]
    /\ memory = InitMemory
    /\ reservation_stations = [i \in RSIds |-> FreeRS]
    /\ functional_units = InitFUs
    /\ rob = <<>>
    /\ next_id = 0
    /\ waiting_wb = <<>>
    /\ correct = 0
    /\ total = 0
    /\ prediction_table = [i \in 0..(table_size - 1) |-> 1]
    /\ hashv \in [BranchTexts(ld.instructions) -> indexes]
    /\ stage = "idle"
    /\ dispLog = <<>>
    /\ commitLog = <<>>
    /\ flushedSeqs = {}
    /\ lastCommit = NoCommit
    /\ calls = 0
    /\ firstRun = NoRun
    /\ lastWritten = [r \in IntRegs \cup FpRegs |-> Num(0)]

InitWith(ld) == InitHashed(ld, HashVals)

Init == \E ld \in Loads : InitWith(ld)

\* ------------------------------------------------------------------------
\* The simulator's mutable state as one record, so that the stages can be
\* written as the functions they are in the code.
\* ------------------------------------------------------------------------
Sim ==
    [pc |-> pc, finished |-> finished, halted |-> halted, cycle |-> cycle,
     stalls |-> stalls, committed |-> committed, int_regs |-> int_regs,
     fp_regs |-> fp_regs, int_tags |-> int_tags, fp_tags |-> fp_tags,
     memory |-> memory, rs |-> reservation_stations, fu |-> functional_units,
     rob |-> rob, next_id |-> next_id, waiting_wb |-> waiting_wb,
     correct |-> correct, total |-> total, prediction_table |-> prediction_table,
     dispLog |-> dispLog, commitLog |-> commitLog, flushedSeqs |-> flushedSeqs,
     lastCommit |-> lastCommit, calls |-> calls, lastWritten |-> lastWritten]

Becomes(s) ==
    /\ pc' = s.pc
    /\ finished' = s.finished
    /\ halted' = s.halted
    /\ cycle' = s.cycle
    /\ stalls' = s.stalls
    /\ committed' = s.committed
    /\ int_regs' = s.int_regs
    /\ fp_regs' = s.fp_regs
    /\ int_tags' = s.int_tags
    /\ fp_tags' = s.fp_tags
    /\ memory' = s.memory
    /\ reservation_stations' = s.rs
    /\ functional_units' = s.fu
    /\ rob' = s.rob
    /\ next_id' = s.next_id
    /\ waiting_wb' = s.waiting_wb
    /\ correct' = s.correct
    /\ total' = s.total
    /\ prediction_table' = s.prediction_table
    /\ dispLog' = s.dispLog
    /\ commitLog' = s.commitLog
    /\ flushedSeqs' = s.flushedSeqs
    /\ lastCommit' = s.lastCommit
    /\ calls' = s.calls
    /\ lastWritten' = s.lastWritten
    /\ UNCHANGED <<instructions, labels, hashv, firstRun>>

\* instructions[i] for a 0-based index i
InstrAt(i) == instructions[i + 1]

\* ---------------- RegisterFile ----------------
RegGet(s, reg) == IF reg \in IntRegs THEN s.int_regs[reg] ELSE s.fp_regs[reg]

RegSet(s, reg, value) ==
    IF reg \in IntRegs
    THEN [s EXCEPT !.int_regs[reg] = value]
    ELSE [s EXCEPT !.fp_regs[reg] = value]

GetTag(s, reg) == IF reg \in IntRegs THEN s.int_tags[reg] ELSE s.fp_tags[reg]

SetTag(s, reg, tag) ==
    IF reg \in IntRegs
    THEN [s EXCEPT !.int_tags[reg] = tag]
    ELSE [s EXCEPT !.fp_tags[reg] = tag]

ClearTag(s, reg) == SetTag(s, reg, NoTag)

\* ---------------- ReorderBuffer ----------------
RobIsFull(s) == Len(s.rob) >= rob_size

\* position in entries of the first entry with the given id, 0 if none
RobPos(entries, idx) ==
    IF \E k \in 1..Len(entries) : entries[k].idx = idx
    THEN CHOOSE k \in 1..Len(entries) :
            /\ entries[k].idx = idx
            /\ \A j \in 1..(k - 1) : entries[j].idx # idx
    ELSE 0

\* ReorderBuffer.__getitem__ answers None for the id None
RobFind(s, idx) == IF idx = NoTag THEN 0 ELSE RobPos(s.rob, idx)

\* variant of NextIdAfter: ids are reused modulo issue_width
NextIdAfter_wrapsEarly(id) == (id + 1) % issue_width

\* ReorderBuffer.get_next_id: the counter after handing out next_id
NextIdAfter(id) == (id + 1) % (rob_size * 2)

\* variant of RobRemove: pops the tail instead of the head
RobRemove_popsTail(entries) ==
    IF Len(entries) > 0 THEN SubSeq(entries, 1, Len(entries) - 1) ELSE entries

\* ReorderBuffer.remove
RobRemove(entries) == IF Len(entries) > 0 THEN Tail(entries) ELSE entries

\* ---------------- dispatch helpers ----------------
OpClass(op) ==
    CASE op \in {"ADD", "SUB", "ADDI", "SUBI"} -> "ADD"
      [] op \in {"MUL", "DIV"} -> "MUL"
      [] op = "LD" -> "LOAD"
      [] op = "SD" -> "STORE"
      [] op \in {"BNE", "BNEZ", "BEQ"} -> "BRANCH"
      [] OTHER -> "None"

\* first free station of the instruction's class in declaration order, NoRS if none
find_free_rs(s, instr) ==
    LET t == OpClass(instr.opcode)
        free == {i \in RSIds : RSDecl[i].op_type = t /\ ~s.rs[i].busy}
    IN  IF free = {} THEN NoRS ELSE CHOOSE i \in free : \A j \in free : i <= j

get_latency(op) ==
    CASE op \in {"ADD", "SUB", "ADDI", "SUBI"} -> 1
      [] op \in {"MUL", "DIV"} -> 2
      [] op = "LD" -> 2
      [] op = "SD" -> 1
      [] op \in {"BNE", "BNEZ", "BRANCH"} -> 1
      [] OTHER -> 1

\* variant of get_operand: the register value is read whatever its tag
get_operand_ignoresTag(s, reg) ==
    IF reg = NoReg THEN [v |-> None, q |-> NoTag]
    ELSE [v |-> RegGet(s, reg), q |-> NoTag]

\* (value, tag) of a source register: the register value, the producer's
\* result forwarded from a ready ROB entry, or the producer's tag
get_operand(s, reg) ==
    IF reg = NoReg THEN [v |-> None, q |-> NoTag]
    ELSE LET tag == GetTag(s, reg) IN
         IF tag = NoTag THEN [v |-> RegGet(s, reg), q |-> NoTag]
         ELSE LET k == RobFind(s, tag) IN
              IF k # 0 /\ s.rob[k].ready
              THEN [v |-> s.rob[k].result, q |-> NoTag]
              ELSE [v |-> None, q |-> tag]

\* the station fields written by dispatch for one instruction
FillRS(s, instr, rob_idx, pcidx) ==
    LET base == [FreeRS EXCEPT !.busy = TRUE, !.op = instr.opcode, !.instr = pcidx,
                               !.rob_idx = rob_idx, !.dest = rob_idx]
        j == get_operand(s, instr.rs)
        k == get_operand(s, instr.rt)
        d == get_operand(s, instr.rd)
        addrKnown == j.q = NoTag /\ IsNum(j.v)
        filled ==
          CASE instr.opcode \in {"ADD", "SUB", "MUL", "DIV"} ->
                 [base EXCEPT !.Vj = j.v, !.Qj = j.q, !.Vk = k.v, !.Qk = k.q,
                              !.exec_cycles = get_latency(instr.opcode)]
            [] instr.opcode \in {"ADDI", "SUBI"} ->
                 [base EXCEPT !.Vj = j.v, !.Qj = j.q, !.Vk = Num(instr.imm), !.Qk = NoTag,
                              !.exec_cycles = get_latency(instr.opcode)]
            [] instr.opcode = "LD" ->
                 [base EXCEPT !.Qj = IF addrKnown THEN NoTag ELSE j.q,
                              !.Vj = Num(instr.imm),
                              !.exec_cycles = get_latency("LD")]
            [] instr.opcode = "SD" ->
                 [base EXCEPT !.Qj = IF addrKnown THEN NoTag ELSE j.q,
                              !.Vj = Num(instr.imm), !.Vk = d.v, !.Qk = d.q,
                              !.exec_cycles = get_latency("SD")]
            [] instr.opcode \in {"BNE", "BNEZ", "BEQ"} ->
                 [base EXCEPT !.Vj = j.v, !.Qj = j.q,
                              !.Vk = IF instr.opcode = "BNEZ" THEN Num(0) ELSE k.v,
                              !.Qk = IF instr.opcode = "BNEZ" THEN NoTag ELSE k.q,
                              !.exec_cycles = get_latency("BRANCH")]
            [] OTHER -> base
    IN  [filled EXCEPT !.remaining = filled.exec_cycles]

\* the ROB entry appended by dispatch for one instruction
FillROBEntry(s, instr, rob_idx, pcidx, seq) ==
    LET e == NewROBEntry(rob_idx, pcidx, IF instr.opcode = "SD" THEN NoReg ELSE instr.rd, seq)
        j == get_operand(s, instr.rs)
    IN  IF instr.opcode \in {"LD", "SD"} /\ j.q = NoTag /\ IsNum(j.v)
        THEN [e EXCEPT !.address = Num(PyInt(VAdd(j.v, Num(instr.imm)))),
                       !.address_ready = TRUE]
        ELSE e

\* whether dispatch renames instr.rd
Renames(instr) ==
    /\ instr.opcode \in {"ADD", "SUB", "MUL", "DIV", "ADDI", "SUBI", "LD"}
    /\ instr.rd # NoReg

\* one successful issue: ROB entry, station, rename, PC
IssueOne(s, instr) ==
    LET rsi == find_free_rs(s, instr)
        rob_idx == s.next_id
        seq == Len(s.dispLog) + 1
        entry == FillROBEntry(s, instr, rob_idx, s.pc, seq)
        station == FillRS(s, instr, rob_idx, s.pc)
        s1 == [s EXCEPT !.next_id = NextIdAfter(s.next_id),
                        !.rob = Append(s.rob, entry),
                        !.rs[rsi] = station,
                        !.dispLog = Append(s.dispLog, rob_idx),
                        !.pc = s.pc + 1]
    IN  IF Renames(instr) THEN SetTag(s1, instr.rd, rob_idx) ELSE s1

\* variant of DispatchLoop: a stalled instruction is skipped
RECURSIVE DispatchLoop_skipsStalled(_, _)
DispatchLoop_skipsStalled(s, issued) ==
    IF ~(issued < issue_width /\ s.pc < Len(instructions)) THEN s
    ELSE LET instr == InstrAt(s.pc) IN
         IF instr.opcode = "HLT" THEN [s EXCEPT !.halted = TRUE]
         ELSE IF find_free_rs(s, instr) = NoRS \/ RobIsFull(s)
              THEN [s EXCEPT !.stalls = s.stalls + 1, !.pc = s.pc + 1]
              ELSE DispatchLoop_skipsStalled(IssueOne(s, instr), issued + 1)

RECURSIVE DispatchLoop(_, _)
DispatchLoop(s, issued) ==
    IF ~(issued < issue_width /\ s.pc < Len(instructions)) THEN s
    ELSE LET instr == InstrAt(s.pc) IN
         IF instr.opcode = "HLT" THEN [s EXCEPT !.halted = TRUE]
         ELSE IF find_free_rs(s, instr) = NoRS \/ RobIsFull(s)
              THEN [s EXCEPT !.stalls = s.stalls + 1]
              ELSE DispatchLoop(IssueOne(s, instr), issued + 1)

dispatch(s) == IF s.halted THEN s ELSE DispatchLoop(s, 0)

\* ---------------- execute ----------------
\* every functional-unit slot, in the order the code's nested loops visit them
FUSlots ==
    << <<"ADD", 1>>, <<"ADD", 2>>, <<"MUL", 1>>, <<"MUL", 2>>, <<"LOAD", 1>>,
       <<"LOAD", 2>>, <<"STORE", 1>>, <<"STORE", 2>>, <<"BRANCH", 1>> >>

\* 1. release the units whose station has countdown 0
ReleaseFUs(s) ==
    [s EXCEPT !.fu =
        [t \in DOMAIN s.fu |->
            [k \in DOMAIN s.fu[t] |->
                IF s.fu[t][k].rs # NoRS /\ s.rs[s.fu[t][k].rs].remaining = 0
                THEN IdleFU ELSE s.fu[t][k]]]]

is_addr_ready(s, i) ==
    /\ s.rs[i].rob_idx # NoTag
    /\ RobFind(s, s.rs[i].rob_idx) # 0
    /\ s.rob[RobFind(s, s.rs[i].rob_idx)].address_ready

\* variant of RSCandidates: LOAD/STORE stations are offered without their address
RSCandidates_skipsAddress(s, t) ==
    {i \in RSIds :
        /\ RSDecl[i].op_type = t
        /\ s.rs[i].busy
        /\ s.rs[i].remaining > 0
        /\ s.rs[i].Qj = NoTag
        /\ s.rs[i].Qk = NoTag
        /\ ~(\E k \in DOMAIN s.fu[t] : s.fu[t][k].rs = i)}

\* variant of RSCandidates: a station already sitting in a unit is offered again
RSCandidates_rebinds(s, t) ==
    {i \in RSIds :
        /\ RSDecl[i].op_type = t
        /\ s.rs[i].busy
        /\ s.rs[i].remaining > 0
        /\ s.rs[i].Qj = NoTag
        /\ s.rs[i].Qk = NoTag
        /\ (t \in {"LOAD", "STORE"} => is_addr_ready(s, i))}

\* stations of class t that may start: busy, countdown > 0, both tags empty,
\* bound to no unit of the class (and address known for LOAD/STORE)
RSCandidates(s, t) ==
    {i \in RSIds :
        /\ RSDecl[i].op_type = t
        /\ s.rs[i].busy
        /\ s.rs[i].remaining > 0
        /\ s.rs[i].Qj = NoTag
        /\ s.rs[i].Qk = NoTag
        /\ ~(\E k \in DOMAIN s.fu[t] : s.fu[t][k].rs = i)
        /\ (t \in {"LOAD", "STORE"} => is_addr_ready(s, i))}

\* bind the candidates, in declaration order, each to the first idle unit
RECURSIVE BindCandidates(_, _)
BindCandidates(ufl, cands) ==
    IF cands = {} THEN ufl
    ELSE LET i == CHOOSE x \in cands : \A y \in cands : x <= y
             idle == {k \in DOMAIN ufl : ~ufl[k].busy}
         IN  IF idle = {} THEN BindCandidates(ufl, cands \ {i})
             ELSE LET k == CHOOSE x \in idle : \A y \in idle : x <= y
                  IN  BindCandidates([ufl EXCEPT ![k] = [rs |-> i, busy |-> TRUE]],
                                     cands \ {i})

\* 2. start execution of the ready stations
StartFUs(s) ==
    [s EXCEPT !.fu = [t \in DOMAIN s.fu |-> BindCandidates(s.fu[t], RSCandidates(s, t))]]

\* 3. count down the stations that sit in a unit; a countdown that reaches 0
\*    puts the station on the waiting-WB list
RECURSIVE CountDown(_, _)
CountDown(s, n) ==
    IF n > Len(FUSlots) THEN s
    ELSE LET i == s.fu[FUSlots[n][1]][FUSlots[n][2]].rs IN
         IF i # NoRS /\ s.rs[i].busy /\ s.rs[i].remaining > 0
         THEN LET s1 == [s EXCEPT !.rs[i].remaining = s.rs[i].remaining - 1]
              IN  CountDown(IF s1.rs[i].remaining = 0
                            THEN [s1 EXCEPT !.waiting_wb = Append(s1.waiting_wb, i)]
                            ELSE s1, n + 1)
         ELSE CountDown(s, n + 1)

execute(s) == CountDown(StartFUs(ReleaseFUs(s)), 1)

\* ---------------- BranchPredictor ----------------
\* hash(instr.raw_text) % table_size
GetIndex(instr) == hashv[instr]

\* variant of predict: the table is not consulted, the answer is not-taken
predict_notTaken(s, instr) == FALSE

predict(s, instr) == s.prediction_table[GetIndex(instr)] >= 2

\* variant of update: every prediction is counted as correct
update_countsAll(s, taken, predicted) ==
    [s EXCEPT !.total = s.total + 1, !.correct = s.correct + 1]

\* BranchPredictor.update: accuracy totals
update(s, taken, predicted) ==
    [s EXCEPT !.total = s.total + 1,
              !.correct = IF taken = predicted THEN s.correct + 1 ELSE s.correct]

Min(a, b) == IF a <= b THEN a ELSE b

Max(a, b) == IF a >= b THEN a ELSE b

\* variant of NextCounter: a taken outcome adds 1 without the ceiling
NextCounter_noCeiling(state, taken) ==
    IF taken THEN state + 1 ELSE IF state - 1 >= 0 THEN state - 1 ELSE 0

\* the 2-bit counter after one outcome
NextCounter(state, taken) == IF taken THEN Min(3, state + 1) ELSE Max(0, state - 1)

\* BranchPredictor.update_prediction_table
update_prediction_table(s, instr, taken) ==
    [s EXCEPT !.prediction_table[GetIndex(instr)] = NextCounter(@, taken)]

\* ---------------- write_back ----------------
\* list.remove: drop the first occurrence
RemoveFirst(q, x) ==
    IF \E k \in 1..Len(q) : q[k] = x
    THEN LET k == CHOOSE k \in 1..Len(q) : q[k] = x /\ \A j \in 1..(k - 1) : q[j] # x
         IN  SubSeq(q, 1, k - 1) \o SubSeq(q, k + 1, Len(q))
    ELSE q

\* memory.get(addr, 0.0)
MemGet(s, addr) == IF addr \in DOMAIN s.memory THEN s.memory[addr] ELSE Num(0)

\* the numeric result of an arithmetic or load station, None if not computable
WBResult(s, i, k) ==
    LET r == s.rs[i]
        both == IsNum(r.Vj) /\ IsNum(r.Vk)
    IN  CASE r.op \in {"ADD", "ADDI"} -> IF both THEN VAdd(r.Vj, r.Vk) ELSE None
          [] r.op \in {"SUB", "SUBI"} -> IF both THEN VSub(r.Vj, r.Vk) ELSE None
          [] r.op = "MUL" -> IF both THEN VMul(r.Vj, r.Vk) ELSE None
          [] r.op = "DIV" -> IF both THEN VDiv(r.Vj, r.Vk) ELSE None
          [] r.op = "LD" -> IF IsNum(s.rob[k].address)
                            THEN MemGet(s, PyInt(s.rob[k].address)) ELSE None
          [] OTHER -> None

\* outcome of a branch station
BranchTaken(r) ==
    IF IsNum(r.Vj) /\ IsNum(r.Vk)
    THEN CASE r.op = "BEQ" -> r.Vj = r.Vk
           [] r.op = "BNE" -> r.Vj # r.Vk
           [] r.op = "BNEZ" -> r.Vj # Num(0)
           [] OTHER -> FALSE
    ELSE FALSE

\* labels.get(instr.target), -1 for None
TargetOf(instr) ==
    IF instr.target # NoLabel /\ instr.target \in DOMAIN labels
    THEN labels[instr.target] ELSE -1

\* variant of Broadcast: only the first operand listens to the CDB
Broadcast_onlyJ(stations, tag, result) ==
    [i \in DOMAIN stations |->
        [stations[i] EXCEPT
            !.Vj = IF stations[i].Qj = tag THEN result ELSE @,
            !.Qj = IF stations[i].Qj = tag THEN NoTag ELSE @]]

\* CDB: every station waiting on the tag captures the result
Broadcast(stations, tag, result) ==
    [i \in DOMAIN stations |->
        [stations[i] EXCEPT
            !.Vj = IF stations[i].Qj = tag THEN result ELSE @,
            !.Qj = IF stations[i].Qj = tag THEN NoTag ELSE @,
            !.Vk = IF stations[i].Qk = tag THEN result ELSE @,
            !.Qk = IF stations[i].Qk = tag THEN NoTag ELSE @]]

\* first station bound to the ROB id, NoRS if none
RSOfRob(stations, idx) ==
    LET m == {i \in DOMAIN stations : stations[i].rob_idx = idx}
    IN  IF m = {} THEN NoRS ELSE CHOOSE i \in m : \A j \in m : i <= j

\* address computation for the LD/SD entries that waited for the tag; runs
\* after Broadcast, over the ROB entries in order
RECURSIVE AddressUpdate(_, _, _, _)
AddressUpdate(s, tag, result, n) ==
    IF n > Len(s.rob) THEN s
    ELSE LET e == s.rob[n]
             m == RSOfRob(s.rs, e.idx)
         IN  IF /\ ~e.address_ready
                /\ m # NoRS
                /\ s.rs[m].Qj = tag
                /\ IsNum(result)
                /\ IsNum(s.rs[m].Vj)
             THEN AddressUpdate(
                    [s EXCEPT !.rob[n].address = Num(PyInt(VAdd(result, s.rs[m].Vj))),
                              !.rob[n].address_ready = TRUE,
                              !.rs[m].Qj = NoTag],
                    tag, result, n + 1)
             ELSE AddressUpdate(s, tag, result, n + 1)

\* variant of WBPublish: the result is also written to the destination
\* register at write-back
WBPublish_writesRegister(s, k, tag, result) ==
    LET s1 == [s EXCEPT !.rob[k].result = result, !.rob[k].ready = TRUE]
        s2 == IF IsNum(result)
              THEN AddressUpdate([s1 EXCEPT !.rs = Broadcast(s1.rs, tag, result)],
                                 tag, result, 1)
              ELSE s1
    IN  IF s.rob[k].dest # NoReg THEN RegSet(s2, s.rob[k].dest, result) ELSE s2

\* an arithmetic or load result reaches the ROB entry (position k, id tag) and,
\* when numeric, the CDB
WBPublish(s, k, tag, result) ==
    LET s1 == [s EXCEPT !.rob[k].result = result, !.rob[k].ready = TRUE]
    IN  IF IsNum(result)
        THEN AddressUpdate([s1 EXCEPT !.rs = Broadcast(s1.rs, tag, result)], tag, result, 1)
        ELSE s1

\* write-back of one finished station i
WBOne(s, i) ==
    LET r == s.rs[i]
        k == RobFind(s, r.rob_idx)
    IN  IF ~r.busy \/ r.rob_idx = NoTag THEN s
        ELSE IF k = 0
        THEN [s EXCEPT !.rs[i] = FreeRS, !.waiting_wb = RemoveFirst(s.waiting_wb, i)]
        ELSE IF r.op = "SD"
        THEN [s EXCEPT !.rob[k].store_value = r.Vk,
                       !.rob[k].ready = TRUE,
                       !.rs[i].ready = TRUE,
                       !.waiting_wb = RemoveFirst(s.waiting_wb, i)]
        ELSE IF r.op \in {"BNE", "BNEZ", "BEQ"}
        THEN LET taken == BranchTaken(r)
                 predicted == predict(s, InstrAt(r.instr))
                 s1 == update(s, taken, predicted)
             IN  [s1 EXCEPT !.rob[k].branch_outcome =
                                [set |-> TRUE, taken |-> taken,
                                 target |-> TargetOf(InstrAt(r.instr))],
                            !.rob[k].mispredicted = (taken # predicted),
                            !.rob[k].ready = TRUE,
                            !.rs[i].ready = TRUE,
                            !.waiting_wb = RemoveFirst(s.waiting_wb, i)]
        ELSE LET s2 == WBPublish(s, k, r.rob_idx, WBResult(s, i, k))
             IN  [s2 EXCEPT !.rs[i].ready = TRUE,
                            !.waiting_wb = RemoveFirst(s2.waiting_wb, i)]

\* the loop over the snapshot list(self.waiting_wb)
RECURSIVE WBLoop(_, _, _)
WBLoop(s, snapshot, n) ==
    IF n > Len(snapshot) THEN s ELSE WBLoop(WBOne(s, snapshot[n]), snapshot, n + 1)

write_back(s) == WBLoop(s, s.waiting_wb, 1)

\* ---------------- commit ----------------
\* variant of flush_pipeline: halted is left as it was
flush_pipeline_keepsHalted(s, new_pc) ==
    [s EXCEPT !.rs = [i \in DOMAIN s.rs |-> FreeRS],
              !.int_tags = [r \in DOMAIN s.int_tags |-> NoTag],
              !.fp_tags = [r \in DOMAIN s.fp_tags |-> NoTag],
              !.rob = <<>>,
              !.waiting_wb = <<>>,
              !.pc = new_pc,
              !.fu = [t \in DOMAIN s.fu |-> [k \in DOMAIN s.fu[t] |-> IdleFU]],
              !.flushedSeqs = s.flushedSeqs \cup {s.rob[k].seq : k \in 1..Len(s.rob)}]

\* variant of flush_pipeline: the stations are left as they were
flush_pipeline_keepsStations(s, new_pc) ==
    [s EXCEPT !.int_tags = [r \in DOMAIN s.int_tags |-> NoTag],
              !.fp_tags = [r \in DOMAIN s.fp_tags |-> NoTag],
              !.rob = <<>>,
              !.waiting_wb = <<>>,
              !.pc = new_pc,
              !.halted = FALSE,
              !.fu = [t \in DOMAIN s.fu |-> [k \in DOMAIN s.fu[t] |-> IdleFU]],
              !.flushedSeqs = s.flushedSeqs \cup {s.rob[k].seq : k \in 1..Len(s.rob)}]

\* variant of flush_pipeline: the tags of the FP bank are left in place
flush_pipeline_keepsFpTags(s, new_pc) ==
    [s EXCEPT !.rs = [i \in DOMAIN s.rs |-> FreeRS],
              !.int_tags = [r \in DOMAIN s.int_tags |-> NoTag],
              !.rob = <<>>,
              !.waiting_wb = <<>>,
              !.pc = new_pc,
              !.halted = FALSE,
              !.fu = [t \in DOMAIN s.fu |-> [k \in DOMAIN s.fu[t] |-> IdleFU]],
              !.flushedSeqs = s.flushedSeqs \cup {s.rob[k].seq : k \in 1..Len(s.rob)}]

flush_pipeline(s, new_pc) ==
    [s EXCEPT !.rs = [i \in DOMAIN s.rs |-> FreeRS],
              !.int_tags = [r \in DOMAIN s.int_tags |-> NoTag],
              !.fp_tags = [r \in DOMAIN s.fp_tags |-> NoTag],
              !.rob = <<>>,
              !.waiting_wb = <<>>,
              !.pc = new_pc,
              !.halted = FALSE,
              !.fu = [t \in DOMAIN s.fu |-> [k \in DOMAIN s.fu[t] |-> IdleFU]],
              !.flushedSeqs = s.flushedSeqs \cup {s.rob[k].seq : k \in 1..Len(s.rob)}]

MemSet(mem, addr, value) ==
    [a \in DOMAIN mem \cup {addr} |-> IF a = addr THEN value ELSE mem[a]]

\* variant of CommitEffect: the register is written whatever its tag
CommitEffect_ignoresTag(s, e) ==
    LET op == InstrAt(e.instr).opcode IN
    IF op \in {"ADD", "SUB", "MUL", "DIV", "ADDI", "SUBI", "LD"}
    THEN IF e.dest # NoReg
         THEN IF GetTag(s, e.dest) = e.idx
              THEN ClearTag(RegSet(s, e.dest, e.result), e.dest)
              ELSE RegSet(s, e.dest, e.result)
         ELSE s
    ELSE IF op = "SD"
    THEN IF IsNum(e.address) /\ IsNum(e.store_value)
         THEN [s EXCEPT !.memory = MemSet(s.memory, PyInt(e.address), e.store_value)]
         ELSE s
    ELSE s

\* variant of CommitEffect: the register is written but its tag is not cleared
CommitEffect_keepsTag(s, e) ==
    LET op == InstrAt(e.instr).opcode IN
    IF op \in {"ADD", "SUB", "MUL", "DIV", "ADDI", "SUBI", "LD"}
    THEN IF e.dest # NoReg /\ GetTag(s, e.dest) = e.idx
         THEN RegSet(s, e.dest, e.result)
         ELSE s
    ELSE IF op = "SD"
    THEN IF IsNum(e.address) /\ IsNum(e.store_value)
         THEN [s EXCEPT !.memory = MemSet(s.memory, PyInt(e.address), e.store_value)]
         ELSE s
    ELSE s

\* architectural effect of retiring the head entry e
CommitEffect(s, e) ==
    LET op == InstrAt(e.instr).opcode IN
    IF op \in {"ADD", "SUB", "MUL", "DIV", "ADDI", "SUBI", "LD"}
    THEN IF e.dest # NoReg /\ GetTag(s, e.dest) = e.idx
         THEN ClearTag(RegSet(s, e.dest, e.result), e.dest)
         ELSE s
    ELSE IF op = "SD"
    THEN IF IsNum(e.address) /\ IsNum(e.store_value)
         THEN [s EXCEPT !.memory = MemSet(s.memory, PyInt(e.address), e.store_value)]
         ELSE s
    ELSE s

\* history: the register results retired so far, after entry e retires
WrittenBy(written, e) ==
    IF /\ InstrAt(e.instr).opcode \in {"ADD", "SUB", "MUL", "DIV", "ADDI", "SUBI", "LD"}
       /\ e.dest # NoReg
    THEN [written EXCEPT ![e.dest] = e.result]
    ELSE written

\* variant of Retire: the station bound to the retired entry stays busy
Retire_keepsStation(s, e) ==
    [s EXCEPT !.rob = RobRemove(s.rob),
              !.commitLog = Append(s.commitLog, e.idx),
              !.committed = s.committed + 1,
              !.lastCommit.retired = s.lastCommit.retired + 1,
              !.lastWritten = WrittenBy(s.lastWritten, e)]

\* release of the head entry and of the first station bound to its id
Retire(s, e) ==
    LET m == RSOfRob(s.rs, e.idx)
        s1 == [s EXCEPT !.rob = RobRemove(s.rob),
                        !.commitLog = Append(s.commitLog, e.idx),
                        !.committed = s.committed + 1,
                        !.lastCommit.retired = s.lastCommit.retired + 1,
                        !.lastWritten = WrittenBy(s.lastWritten, e)]
    IN  IF m = NoRS THEN s1 ELSE [s1 EXCEPT !.rs[m] = FreeRS]

RECURSIVE CommitLoop(_, _)
CommitLoop(s, commit_count) ==
    IF ~(commit_count < issue_width /\ Len(s.rob) > 0 /\ s.rob[1].ready) THEN s
    ELSE LET e == s.rob[1] IN
         IF e.mispredicted /\ e.branch_outcome.set
         THEN LET met == [s EXCEPT !.lastCommit.misp = TRUE,
                                   !.lastCommit.mtaken = e.branch_outcome.taken,
                                   !.lastCommit.mtarget = e.branch_outcome.target,
                                   !.lastCommit.minstr = e.instr]
              IN  IF e.branch_outcome.target # -1
                  THEN LET new_pc == IF e.branch_outcome.taken
                                     THEN e.branch_outcome.target ELSE e.instr + 1
                       IN  [flush_pipeline(met, new_pc) EXCEPT
                                !.lastCommit.flushed = TRUE, !.lastCommit.new_pc = new_pc]
                  ELSE met
         ELSE LET s1 == Retire(CommitEffect(s, e), e) IN
              IF s1.pc >= Len(instructions) /\ Len(s1.rob) = 0
              THEN [s1 EXCEPT !.finished = TRUE]
              ELSE CommitLoop(s1, commit_count + 1)

\* variant of commit: the retirement count starts below zero, so the width
\* never ends the walk
commit_noWidth(s) == CommitLoop(s, 0 - Len(s.rob))

commit(s) == CommitLoop(s, 0)

\* ------------------------------------------------------------------------
\* Actions: step() = cycle += 1; commit(); write_back(); execute(); dispatch()
\* ------------------------------------------------------------------------
\* variant of StepCommit: the cycle counter is left as it was
StepCommit_keepsCycle ==
    /\ stage = "idle"
    /\ ~finished
    /\ cycle < MaxCycle
    /\ calls < MaxCycle
    /\ Becomes(commit([Sim EXCEPT !.lastCommit = NoCommit, !.calls = calls + 1]))
    /\ stage' = "write_back"

StepCommit ==
    /\ stage = "idle"
    /\ ~finished
    /\ cycle < MaxCycle
    /\ Becomes(commit([Sim EXCEPT !.cycle = cycle + 1, !.lastCommit = NoCommit,
                                  !.calls = calls + 1]))
    /\ stage' = "write_back"

StepWriteBack ==
    /\ stage = "write_back"
    /\ Becomes(write_back(Sim))
    /\ stage' = "execute"

StepExecute ==
    /\ stage = "execute"
    /\ Becomes(execute(Sim))
    /\ stage' = "dispatch"

StepDispatch ==
    /\ stage = "dispatch"
    /\ Becomes(dispatch(Sim))
    /\ stage' = "idle"

\* variant of StepFinished: the early return still counts the cycle
StepFinished_countsCycle ==
    /\ stage = "idle"
    /\ finished
    /\ calls < MaxCycle
    /\ calls' = calls + 1
    /\ cycle' = cycle + 1
    /\ UNCHANGED <<instructions, labels, pc, finished, halted, stalls, committed,
                   int_regs, fp_regs, int_tags, fp_tags, memory, reservation_stations,
                   functional_units, rob, next_id, waiting_wb, correct, total,
                   prediction_table, hashv, stage, dispLog, commitLog, flushedSeqs,
                   lastCommit, firstRun, lastWritten>>

\* step() called once finished is set: the early return
StepFinished ==
    /\ stage = "idle"
    /\ finished
    /\ calls < MaxCycle
    /\ calls' = calls + 1
    /\ UNCHANGED <<instructions, labels, pc, finished, halted, cycle, stalls, committed,
                   int_regs, fp_regs, int_tags, fp_tags, memory, reservation_stations,
                   functional_units, rob, next_id, waiting_wb, correct, total,
                   prediction_table, hashv, stage, dispLog, commitLog, flushedSeqs,
                   lastCommit, firstRun, lastWritten>>

\* the four stages of a step() that runs
NextRunning == StepCommit \/ StepWriteBack \/ StepExecute \/ StepDispatch

Next == StepCommit \/ StepWriteBack \/ StepExecute \/ StepDispatch \/ StepFinished

Spec == Init /\ [][Next]_vars

InitArith == \E ld \in ArithLoads : InitWith(ld)

\* programs ending in HLT never set finished, so only the running stages occur
SpecArith == InitArith /\ [][NextRunning]_vars

\* ------------------------------------------------------------------------
\* Direct calls on sim.branch_predictor
\* ------------------------------------------------------------------------
\* branch_predictor.update_prediction_table(instr, taken)
BPTrain(instr, taken) ==
    /\ stage = "idle"
    /\ prediction_table' = update_prediction_table(Sim, instr, taken).prediction_table
    /\ UNCHANGED <<instructions, labels, pc, finished, halted, cycle, stalls, committed,
                   int_regs, fp_regs, int_tags, fp_tags, memory, reservation_stations,
                   functional_units, rob, next_id, waiting_wb, correct, total, hashv,
                   stage, dispLog, commitLog, flushedSeqs, lastCommit, calls, firstRun,
                   lastWritten>>

\* branch_predictor.update(taken, predicted)
BPUpdate(taken, predicted) ==
    /\ stage = "idle"
    /\ total < MaxTotal
    /\ total' = update(Sim, taken, predicted).total
    /\ correct' = update(Sim, taken, predicted).correct
    /\ UNCHANGED <<instructions, labels, pc, finished, halted, cycle, stalls, committed,
                   int_regs, fp_regs, int_tags, fp_tags, memory, reservation_stations,
                   functional_units, rob, next_id, waiting_wb, prediction_table, hashv,
                   stage, dispLog, commitLog, flushedSeqs, lastCommit, calls, firstRun,
                   lastWritten>>

\* one round of the unit test: predict, update with the outcome, train
BPResolve(instr, taken) ==
    LET s1 == update(Sim, taken, predict(Sim, instr))
        s2 == update_prediction_table(s1, instr, taken)
    IN  /\ stage = "idle"
        /\ total < MaxTotal
        /\ total' = s2.total
        /\ correct' = s2.correct
        /\ prediction_table' = s2.prediction_table
        /\ UNCHANGED <<instructions, labels, pc, finished, halted, cycle, stalls,
                       committed, int_regs, fp_regs, int_tags, fp_tags, memory,
                       reservation_stations, functional_units, rob, next_id, waiting_wb,
                       hashv, stage, dispLog, commitLog, flushedSeqs, lastCommit, calls,
                       firstRun, lastWritten>>

\* two different branch texts in one program
ScenarioTwoBranches ==
    Load(<<Br2("BEQ", "R0", "R0", "L"), Bnez("R1", "L"), Hlt>>, OneLabel("L", 2))

BPLoads == {ScenarioLoop, ScenarioSkip, ScenarioTwoBranches}

InitBP == \E ld \in BPLoads : InitHashed(ld, HashVals)

\* the predictor of a freshly loaded simulator, driven by direct calls
NextBP ==
    \/ \E b \in BranchTexts(instructions), taken \in BOOLEAN : BPTrain(b, taken)
    \/ \E taken \in BOOLEAN, predicted \in BOOLEAN : BPUpdate(taken, predicted)
    \/ \E b \in BranchTexts(instructions), taken \in BOOLEAN : BPResolve(b, taken)

SpecBP == InitBP /\ [][NextBP]_vars

\* Programs with a branch, run with the branch's counter set beforehand
\* the skip program with R1 = 1: its BNEZ is taken
ScenarioTaken ==
    Load(<<ArithI("ADDI", "R1", "R0", 1), Bnez("R1", "SKIP"),
           ArithI("ADDI", "R2", "R0", 9), Hlt>>, OneLabel("SKIP", 3))

PresetLoads == {ScenarioSkip, ScenarioLoop, ScenarioTaken}

InitPreset == \E ld \in PresetLoads : InitHashed(ld, HashVals)

\* the counters are set through the predictor before the first step()
Preset ==
    /\ calls = 0
    /\ \E b \in BranchTexts(instructions), taken \in BOOLEAN : BPTrain(b, taken)

NextPreset == Preset \/ NextRunning

SpecPreset == InitPreset /\ [][NextPreset]_vars

\* ------------------------------------------------------------------------
\* reset()
\* ------------------------------------------------------------------------
\* a program without HLT: it runs past its end and sets finished
ScenarioNoHalt == Load(<<ArithI("ADDI", "R1", "R0", 7)>>, NoLabels)

ResetLoads == Scenarios \cup {ScenarioNoHalt}

InitReset == \E ld \in ResetLoads : InitWith(ld)

\* reset() = reset_state(): new register file, ROB and predictor, stations and
\* units cleared, counters zeroed, memory refilled.  pc and finished are not
\* among the fields it assigns.  The history of the run it ends is kept in
\* firstRun; one reset per load is explored.
Reset ==
    /\ stage = "idle"
    /\ ~firstRun.reset
    /\ firstRun' = [reset |-> TRUE, calls |-> calls, commitLog |-> commitLog,
                    int_regs |-> int_regs, fp_regs |-> fp_regs, memory |-> memory]
    /\ int_regs' = [r \in IntRegs |-> Num(0)]
    /\ fp_regs' = [r \in FpRegs |-> Num(0)]
    /\ int_tags' = [r \in IntRegs |-> NoTag]
    /\ fp_tags' = [r \in FpRegs |-> NoTag]
    /\ rob' = <<>>
    /\ next_id' = 0
    /\ correct' = 0
    /\ total' = 0
    /\ prediction_table' = [i \in 0..(table_size - 1) |-> 1]
    /\ reservation_stations' = [i \in RSIds |-> FreeRS]
    /\ cycle' = 0
    /\ stalls' = 0
    /\ committed' = 0
    /\ waiting_wb' = <<>>
    /\ halted' = FALSE
    /\ memory' = InitMemory
    /\ functional_units' = InitFUs
    /\ dispLog' = <<>>
    /\ commitLog' = <<>>
    /\ flushedSeqs' = {}
    /\ lastCommit' = NoCommit
    /\ calls' = 0
    /\ lastWritten' = [r \in IntRegs \cup FpRegs |-> Num(0)]
    /\ UNCHANGED <<instructions, labels, pc, finished, hashv, stage>>

NextReset == Next \/ Reset

SpecReset == InitReset /\ [][NextReset]_vars

\* ---------------- long runs: programs that never end ----------------
\* a branch to itself, always taken, with two instructions behind it
ScenarioSpin ==
    Load(<<Br2("BEQ", "R0", "R0", "L"), ArithI("ADDI", "R1", "R0", 1),
           ArithI("ADDI", "R2", "R0", 2)>>, OneLabel("L", 0))

\* a loop whose body fills stations of four classes, with two instructions
\* behind the closing branch
ScenarioBusyLoop ==
    Load(<<Arith3("MUL", "R3", "R0", "R0"), ArithI("ADDI", "R1", "R0", 1),
           Mem("SD", "R1", 0, "R0"), Br2("BEQ", "R0", "R0", "L"),
           ArithI("ADDI", "R2", "R0", 2), Mem("LD", "F0", 0, "R0")>>,
         OneLabel("L", 0))

LongLoads == {ScenarioSpin, ScenarioBusyLoop}

InitLong == \E ld \in LongLoads : InitWith(ld)

\* step() up to commit(), for the long runs
StepCommitLong ==
    /\ stage = "idle"
    /\ ~finished
    /\ cycle < MaxLongCycle
    /\ Becomes(commit([Sim EXCEPT !.cycle = cycle + 1, !.lastCommit = NoCommit,
                                  !.calls = calls + 1]))
    /\ stage' = "write_back"

NextLong == StepCommitLong \/ StepWriteBack \/ StepExecute \/ StepDispatch

SpecLong == InitLong /\ [][NextLong]_vars

TypeOK ==
    /\ stage \in {"idle", "write_back", "execute", "dispatch"}
    /\ pc \in 0..(Len(instructions) + 1)
    /\ cycle \in 0..MaxCycle

\* ------------------------------------------------------------------------
\* Properties
\* ------------------------------------------------------------------------
AfterCommit == stage = "write_back"

BetweenSteps == stage = "idle"

RobIds(entries) == [k \in 1..Len(entries) |-> entries[k].idx]

\* the ids of dispLog[1..n] whose position was not discarded by a flush
RECURSIVE KeptIds(_)
KeptIds(n) ==
    IF n = 0 THEN <<>>
    ELSE IF n \in flushedSeqs THEN KeptIds(n - 1)
         ELSE Append(KeptIds(n - 1), dispLog[n])

\* C1: in-order commit.  The ids allocated by dispatch, without those a flush
\* discarded, are exactly the ids retired so far followed by the ids still in
\* the ROB, in the same order; the ROB itself is in allocation order.
C1_InOrderCommit ==
    /\ KeptIds(Len(dispLog)) = commitLog \o RobIds(rob)
    /\ \A k \in 1..Len(rob) : dispLog[rob[k].seq] = rob[k].idx
    /\ \A j, k \in 1..Len(rob) : j < k => rob[j].seq < rob[k].seq

C1_Witness ==
    /\ Len(commitLog) >= 2
    /\ flushedSeqs # {}
    /\ Len(rob) >= 1
    /\ commitLog # SubSeq(dispLog, 1, Len(commitLog))

\* C2 (as claimed): a ready mispredicted branch met at the ROB head by commit
\* always flushes in that commit and redirects PC to the target (taken) or to
\* the instruction after the branch (not taken).
C2_MispredictAlwaysFlushes ==
    (AfterCommit /\ lastCommit.misp) =>
        /\ lastCommit.flushed
        /\ rob = <<>>
        /\ pc = IF lastCommit.mtaken THEN lastCommit.mtarget ELSE lastCommit.minstr + 1

AllRSFree == \A i \in RSIds : reservation_stations[i] = FreeRS

AllFUIdle ==
    \A t \in DOMAIN functional_units :
        \A k \in DOMAIN functional_units[t] : functional_units[t][k] = IdleFU

\* C3: right after flush_pipeline(new_pc) every producer tag of both banks is
\* empty, the ROB and the waiting-WB list are empty, every station is free,
\* every unit is idle, halted is false and PC is new_pc.
C3_FlushClearsAll ==
    (AfterCommit /\ lastCommit.flushed) =>
        /\ \A r \in IntRegs : int_tags[r] = NoTag
        /\ \A r \in FpRegs : fp_tags[r] = NoTag
        /\ rob = <<>>
        /\ waiting_wb = <<>>
        /\ AllRSFree
        /\ AllFUIdle
        /\ ~halted
        /\ pc = lastCommit.new_pc

\* a flush that discarded at least two entries besides ending at its new PC
C3_Witness ==
    /\ AfterCommit
    /\ lastCommit.flushed
    /\ Cardinality(flushedSeqs) >= 3
    /\ pc = lastCommit.new_pc
    /\ pc < Len(instructions)

TagOf(reg) == IF reg \in IntRegs THEN int_tags[reg] ELSE fp_tags[reg]

\* C4: single producer.  A register's tag is empty or is the id of exactly one
\* entry now in the ROB, and that entry's destination is the register.
C4_SingleProducer ==
    \A reg \in IntRegs \cup FpRegs :
        TagOf(reg) # NoTag =>
            /\ Cardinality({k \in 1..Len(rob) : rob[k].idx = TagOf(reg)}) = 1
            /\ \A k \in 1..Len(rob) : rob[k].idx = TagOf(reg) => rob[k].dest = reg

\* two renamed registers, one of them renamed twice (an older writer of the
\* same register is still in the ROB)
C4_Witness ==
    /\ \E r1, r2 \in IntRegs \cup FpRegs : r1 # r2 /\ TagOf(r1) # NoTag /\ TagOf(r2) # NoTag
    /\ \E j, k \in 1..Len(rob) : j < k /\ rob[j].dest = rob[k].dest /\ rob[k].dest # NoReg

\* C5: register values and memory words change only in a commit stage that
\* retires at least one entry; write_back, execute, dispatch and a commit that
\* only flushes leave them as they were.
C5_EffectsOnlyAtCommit ==
    [][(int_regs' # int_regs \/ fp_regs' # fp_regs \/ memory' # memory)
        => (stage = "idle" /\ lastCommit'.retired > 0)]_vars

\* a state after a flush in which committed register and memory writes stand
C5_Witness ==
    /\ flushedSeqs # {}
    /\ int_regs["R1"] = Num(7)
    /\ memory[0] = Num(7)
    /\ committed >= 2

IsBranchFree(prog) == \A i \in 1..Len(prog) : prog[i].opcode \notin BranchOps

\* nothing in flight and nothing left to dispatch
Drained ==
    /\ BetweenSteps
    /\ cycle > 0
    /\ rob = <<>>
    /\ waiting_wb = <<>>
    /\ (halted \/ pc >= Len(instructions))

\* C6 (as claimed, in the form a finite run decides): a branch-free program
\* that has reached its HLT or run past its last instruction and has drained
\* the pipeline is finished.  From a drained state no later step() changes
\* anything but the cycle counter, so finished can no longer become true.
C6_DrainedProgramFinished ==
    (IsBranchFree(instructions) /\ Drained) => finished

\* C7 (as claimed): after the commit stage, PC past the last instruction and an
\* empty ROB imply finished.
C7_PastEndEmptyRobFinished ==
    (AfterCommit /\ pc >= Len(instructions) /\ rob = <<>>) => finished

\* C8 (as claimed): the memory round-trip program ends with R2 = 7 and
\* memory[0] = 7.
C8_MemoryRoundTrip ==
    (instructions = ScenarioMemory.instructions /\ Drained) =>
        (int_regs["R2"] = Num(7) /\ memory[0] = Num(7))

\* the write-back now running publishes a numeric result for the ROB id tag
PublishedNow(tag) ==
    /\ stage = "write_back"
    /\ RobPos(rob, tag) # 0
    /\ ~rob[RobPos(rob, tag)].ready
    /\ rob'[RobPos(rob, tag)].ready
    /\ IsNum(rob'[RobPos(rob, tag)].result)

\* C9 (as claimed): a LD/SD station whose base waits on a tag (Qj = tag, offset
\* in Vj) has, after the write-back that publishes the tag's result, its ROB
\* entry's address = result + offset and address_ready set.
C9_AddressOnBroadcast ==
    [][\A i \in RSIds :
          LET r == reservation_stations[i] IN
          (r.busy /\ r.op \in {"LD", "SD"} /\ r.Qj # NoTag /\ PublishedNow(r.Qj)) =>
              LET k == RobPos(rob, r.rob_idx)
                  p == RobPos(rob, r.Qj)
              IN  /\ k # 0
                  /\ rob'[k].address_ready
                  /\ rob'[k].address = Num(PyInt(VAdd(rob'[p].result, r.Vj)))]_vars

\* sequential in-order execution of an arithmetic program from instruction i
RECURSIVE SeqRun(_, _, _)
SeqRun(regs, prog, i) ==
    IF i > Len(prog) \/ prog[i].opcode = "HLT" THEN regs
    ELSE LET ins == prog[i]
             a == regs[ins.rs]
             b == IF ins.opcode \in {"ADDI", "SUBI"} THEN Num(ins.imm) ELSE regs[ins.rt]
             v == CASE ins.opcode \in {"ADD", "ADDI"} -> VAdd(a, b)
                    [] ins.opcode \in {"SUB", "SUBI"} -> VSub(a, b)
                    [] ins.opcode = "MUL" -> VMul(a, b)
                    [] ins.opcode = "DIV" -> VDiv(a, b)
         IN  SeqRun([regs EXCEPT ![ins.rd] = v], prog, i + 1)

\* a station's waiting tag names an entry of the ROB that has not written back
TagPending(q) == q # NoTag => \E k \in 1..Len(rob) : rob[k].idx = q /\ ~rob[k].ready

\* position in the ROB of the youngest entry older than position k that
\* writes reg (0 when there is none)
Producer(k, reg) ==
    LET w == {p \in 1..(k - 1) : rob[p].dest = reg}
    IN  IF w = {} THEN 0 ELSE CHOOSE p \in w : \A q \in w : q <= p

\* the operand (value v, tag q) that station i holds for source register reg:
\* the producer's tag and no value for as long as the producer is in the ROB
\* and has not written back, otherwise no tag and a number (the producer's
\* result while the producer is still in the ROB)
OperandWaits(i, reg, q, v) ==
    LET p == Producer(RobPos(rob, reservation_stations[i].rob_idx), reg)
    IN  IF p # 0 /\ ~rob[p].ready
        THEN q = rob[p].idx /\ v = None
        ELSE q = NoTag /\ IsNum(v) /\ (p # 0 => v = rob[p].result)

\* the station of the instruction at index n of the program (NoRS when the
\* instruction is in no station)
StationOf(n) ==
    IF \E i \in RSIds : reservation_stations[i].busy /\ reservation_stations[i].instr = n
    THEN CHOOSE i \in RSIds : reservation_stations[i].busy /\ reservation_stations[i].instr = n
    ELSE NoRS

\* this step removes the tag q from an operand of a station that keeps its
\* instruction
TagCleared(i, q, q2) ==
    /\ reservation_stations[i].busy
    /\ reservation_stations'[i].busy
    /\ reservation_stations'[i].rob_idx = reservation_stations[i].rob_idx
    /\ q # NoTag
    /\ q2 = NoTag

\* C10: for a branch-free arithmetic program ending in HLT, once the ROB has
\* drained the registers hold what sequential execution produces.  While it
\* runs, a station whose source register has a producer in the ROB that has
\* not written back holds that producer's tag (Qj/Qk) and no value; a held
\* tag names such a producer; and a tag is cleared only by the write-back
\* stage that publishes its producer's result, which becomes the operand.
\* In the RAW program of the documentation the second ADDI's station holds
\* the first ADDI's tag in Qj from the first dispatch on.
C10_SequentialResult ==
    /\ [](/\ Drained => int_regs = SeqRun([r \in IntRegs |-> Num(0)], instructions, 1)
          /\ \A i \in RSIds :
                LET r == reservation_stations[i] IN
                r.busy =>
                    /\ TagPending(r.Qj)
                    /\ TagPending(r.Qk)
                    /\ OperandWaits(i, InstrAt(r.instr).rs, r.Qj, r.Vj)
                    /\ InstrAt(r.instr).opcode \in {"ADD", "SUB", "MUL", "DIV"} =>
                           OperandWaits(i, InstrAt(r.instr).rt, r.Qk, r.Vk)
          /\ (instructions = ScenarioRaw.instructions /\ stage = "idle" /\ cycle = 1) =>
                /\ StationOf(2) # NoRS
                /\ RobPos(rob, reservation_stations[StationOf(1)].rob_idx) # 0
                /\ reservation_stations[StationOf(2)].Qj = reservation_stations[StationOf(1)].rob_idx)
    /\ [][\A i \in RSIds :
            LET r == reservation_stations[i]
                r2 == reservation_stations'[i]
            IN  /\ TagCleared(i, r.Qj, r2.Qj) =>
                     (PublishedNow(r.Qj) /\ r2.Vj = rob'[RobPos(rob, r.Qj)].result)
                /\ TagCleared(i, r.Qk, r2.Qk) =>
                     (PublishedNow(r.Qk) /\ r2.Vk = rob'[RobPos(rob, r.Qk)].result)]_vars

\* the RAW program of the documentation right after the write-back stage in
\* which the first ADDI published 4: the second ADDI's station, which waited
\* with the first ADDI's tag in Qj and so has not started to execute, now has
\* no tag and Vj = 4, while R1 is still 0 and still renamed to the first ADDI
C10_Witness ==
    /\ instructions = ScenarioRaw.instructions
    /\ stage = "execute"
    /\ StationOf(1) # NoRS
    /\ StationOf(2) # NoRS
    /\ LET first == reservation_stations[StationOf(1)]
           second == reservation_stations[StationOf(2)]
           p == RobPos(rob, first.rob_idx)
       IN  /\ p # 0
           /\ rob[p].ready
           /\ rob[p].result = Num(4)
           /\ second.Qj = NoTag
           /\ second.Vj = Num(4)
           /\ ~second.ready
           /\ \A t \in DOMAIN functional_units : \A k \in DOMAIN functional_units[t] :
                 functional_units[t][k].rs # StationOf(2)
           /\ int_regs["R1"] = Num(0)
           /\ int_tags["R1"] = first.rob_idx

\* the BNEZ of the skip program
SkipBnez == ScenarioSkip.instructions[2]

\* the skip program running with its BNEZ's counter at 3 (predict taken)
SkipPreset3 ==
    /\ instructions = ScenarioSkip.instructions
    /\ labels = ScenarioSkip.labels
    /\ calls >= 1
    /\ prediction_table[GetIndex(SkipBnez)] = 3

\* the commit stage has just met the resolved BNEZ and flushed
SkipFlushed ==
    /\ AfterCommit
    /\ lastCommit.flushed
    /\ lastCommit.minstr = 1
    /\ int_regs["R2"] = Num(0)
    /\ correct = 0
    /\ total = 1
    /\ 3 \in flushedSeqs
    /\ commitLog = <<0>>

\* C11: the skip program with the BNEZ's counter preset to 3.  The BNEZ
\* resolves not taken and mispredicted; the shadow ADDI R2 (third allocation,
\* ROB id 2) never retires; the totals never show anything but one miss; R2
\* stays 0 until the flush; the commit stage of the fifth step() meets the
\* BNEZ and flushes with R2 = 0, correct = 0, total = 1 and the shadow entry
\* discarded, and no other commit stage flushes.
C11_SkipMispredictFlush ==
    SkipPreset3 =>
        /\ \A k \in 1..Len(rob) :
              (rob[k].instr = 1 /\ rob[k].branch_outcome.set) =>
                  (rob[k].mispredicted /\ ~rob[k].branch_outcome.taken)
        /\ \A k \in 1..Len(commitLog) : commitLog[k] # 2
        /\ correct = 0
        /\ total <= 1
        /\ (flushedSeqs = {} => int_regs["R2"] = Num(0))
        /\ ((AfterCommit /\ lastCommit.flushed) => SkipFlushed)
        /\ ((AfterCommit /\ calls = 5) => SkipFlushed)
        /\ (calls >= 5 => (flushedSeqs = {2, 3} /\ total = 1))

C11_Witness == SkipPreset3 /\ SkipFlushed /\ pc = 2 /\ rob = <<>>

\* C12 (as claimed): after reset(), stepping the loaded program as many times
\* as the first run was stepped gives the first run's commit order, registers
\* and memory.
C12_ResetReplaysRun ==
    (firstRun.reset /\ BetweenSteps /\ calls = firstRun.calls) =>
        /\ commitLog = firstRun.commitLog
        /\ int_regs = firstRun.int_regs
        /\ fp_regs = firstRun.fp_regs
        /\ memory = firstRun.memory

\* C13: a step() called once finished is true changes nothing of the
\* simulator: cycle, committed, stalls, PC, ROB, stations, units, registers,
\* tags, memory, predictor and flags stay as they were.
C13_FinishedStepIsNoOp ==
    [][(stage = "idle" /\ finished) =>
          UNCHANGED <<cycle, committed, stalls, pc, rob, next_id, reservation_stations,
                      functional_units, int_regs, fp_regs, int_tags, fp_tags, memory,
                      correct, total, prediction_table, waiting_wb, halted, finished>>]_vars

\* two step() calls have returned early
C13_Witness ==
    /\ finished
    /\ BetweenSteps
    /\ calls = cycle + 2
    /\ pc >= Len(instructions)
    /\ rob = <<>>

\* C14 (as claimed): every step() call adds exactly 1 to the cycle counter and
\* never lowers committed.
C14_EveryStepAdvancesCycle ==
    [][/\ committed' >= committed
       /\ (calls' = calls + 1 => cycle' = cycle + 1)
       /\ (calls' = calls => cycle' = cycle)]_vars

\* C14 (amended): a step() call made while finished is false adds exactly 1 to
\* the cycle counter, at its start, and never lowers committed; a call made
\* once finished is true leaves both as they were.
C14_RunningStepAdvancesCycle ==
    [][/\ committed' >= committed
       /\ ((calls' = calls + 1 /\ ~finished) => cycle' = cycle + 1)
       /\ ((calls' = calls + 1 /\ finished) => (cycle' = cycle /\ committed' = committed))
       /\ (calls' = calls => cycle' = cycle)]_vars

\* a run of at least four cycles that retired two entries, then a call that
\* returned early
C14_Witness ==
    /\ finished
    /\ committed >= 2
    /\ cycle >= 4
    /\ calls = cycle + 1

\* C15: the commit stage of a step() retires at most issue_width entries, its
\* dispatch stage issues at most issue_width instructions, and committed never
\* exceeds issue_width * cycle.
C15_IssueWidthBounds ==
    [][/\ committed' <= issue_width * cycle'
       /\ (stage = "idle" => committed' - committed <= issue_width)
       /\ (stage = "dispatch" => Len(dispLog') - Len(dispLog) <= issue_width)]_vars

\* the wide program: four entries retired in one commit stage with a fifth
\* ready entry left at the head, after a first dispatch that stopped at four
C15_Witness ==
    /\ instructions = ScenarioWide.instructions
    /\ AfterCommit
    /\ lastCommit.retired = issue_width
    /\ Len(rob) >= 1
    /\ rob[1].ready
    /\ dispLog = <<0, 1, 2, 3, 4>>

\* the units (class, slot) bound to station i
UnitsOf(i) ==
    {u \in {<<t, k>> : t \in DOMAIN functional_units, k \in 1..2} :
        /\ u[2] \in DOMAIN functional_units[u[1]]
        /\ functional_units[u[1]][u[2]].rs = i}

\* C16: no station sits in two units; a unit holds one station or none, and
\* is busy exactly when it holds one; a unit holds only stations of its class.
C16_RsFuPairing ==
    /\ \A i \in RSIds : Cardinality(UnitsOf(i)) <= 1
    /\ \A t \in DOMAIN functional_units :
          \A k \in DOMAIN functional_units[t] :
              LET u == functional_units[t][k] IN
              /\ u.rs \in RSIds \cup {NoRS}
              /\ u.busy <=> (u.rs # NoRS)
              /\ u.rs # NoRS => RSDecl[u.rs].op_type = t

\* both MUL units hold a station, one of them in its second cycle
C16_Witness ==
    /\ functional_units["MUL"][1].rs # NoRS
    /\ functional_units["MUL"][2].rs # NoRS
    /\ functional_units["MUL"][1].rs # functional_units["MUL"][2].rs
    /\ \E k \in 1..2 :
          reservation_stations[functional_units["MUL"][k].rs].remaining = 1

\* C17 (as claimed): between step() calls a unit holds a station only when the
\* station is busy and its countdown is above 0.
C17_BoundOnlyWhileCounting ==
    BetweenSteps =>
        \A t \in DOMAIN functional_units :
            \A k \in DOMAIN functional_units[t] :
                LET i == functional_units[t][k].rs IN
                i # NoRS =>
                    (reservation_stations[i].busy /\ reservation_stations[i].remaining > 0)

\* the counter of branch b in predictor state s
CounterOf(s, b) == s.prediction_table[GetIndex(b)]

\* C18: every table entry starts at 1 and stays in 0..3 under any calls of
\* update_prediction_table; predict answers taken iff the branch's entry is
\* at least 2; a taken outcome moves the entry to min(3, s + 1), a not-taken
\* outcome to max(0, s - 1); three taken outcomes in a row bring the entry to
\* 3 from any state; from entry 0 the prediction is still not-taken after one
\* taken outcome and taken after two.
C18_PredictorSaturation ==
    /\ \A i \in 0..(table_size - 1) : prediction_table[i] = 1
    /\ [](/\ DOMAIN prediction_table = 0..(table_size - 1)
          /\ \A i \in DOMAIN prediction_table : prediction_table[i] \in 0..3
          /\ \A b \in BranchTexts(instructions) :
                LET c == CounterOf(Sim, b)
                    t1 == update_prediction_table(Sim, b, TRUE)
                    t2 == update_prediction_table(t1, b, TRUE)
                    t3 == update_prediction_table(t2, b, TRUE)
                    n1 == update_prediction_table(Sim, b, FALSE)
                IN  /\ predict(Sim, b) <=> c >= 2
                    /\ CounterOf(t1, b) = IF c + 1 > 3 THEN 3 ELSE c + 1
                    /\ CounterOf(n1, b) = IF c - 1 < 0 THEN 0 ELSE c - 1
                    /\ CounterOf(t3, b) = 3
                    /\ c = 0 => (~predict(t1, b) /\ predict(t2, b)))

\* one branch trained down to 0 and another up to 3
C18_Witness ==
    \E b1, b2 \in BranchTexts(instructions) :
        /\ CounterOf(Sim, b1) = 0
        /\ CounterOf(Sim, b2) = 3

\* a branch leaves write_back resolved at ROB position k
ResolvedNow(k) ==
    /\ stage = "write_back"
    /\ ~rob[k].branch_outcome.set
    /\ k <= Len(rob')
    /\ rob'[k].branch_outcome.set

\* C19 (as claimed): the write-back that resolves a branch adds the
\* prediction to the totals and moves the branch's counter one step toward the
\* outcome.
C19_WriteBackTrainsCounter ==
    [][\A k \in 1..Len(rob) :
          ResolvedNow(k) =>
              LET b == InstrAt(rob[k].instr) IN
              /\ total' = total + 1
              /\ prediction_table'[GetIndex(b)] =
                     NextCounter(prediction_table[GetIndex(b)],
                                 rob'[k].branch_outcome.taken)]_vars

\* what every call leaves true of the totals
TotalsAccounting ==
    /\ \A taken \in BOOLEAN, predicted \in BOOLEAN :
          BPUpdate(taken, predicted) =>
              /\ total' = total + 1
              /\ correct' = IF taken = predicted THEN correct + 1 ELSE correct
              /\ prediction_table' = prediction_table
    /\ \A b \in BranchTexts(instructions), taken \in BOOLEAN :
          BPResolve(b, taken) =>
              /\ total' = total + 1
              /\ correct' = IF taken = (CounterOf(Sim, b) >= 2) THEN correct + 1 ELSE correct
    /\ 0 <= correct' /\ correct' <= total'

\* C20 (as claimed): update adds 1 to total and 1 to correct iff taken =
\* predicted, so 0 <= correct <= total, and leaves the table alone;
\* update_prediction_table leaves the totals alone and the entry of every
\* other branch as it was.
C20_TotalsAndOtherBranches ==
    [][/\ TotalsAccounting
       /\ \A b \in BranchTexts(instructions), taken \in BOOLEAN :
             BPTrain(b, taken) =>
                 /\ total' = total /\ correct' = correct
                 /\ \A o \in BranchTexts(instructions) \ {b} :
                       prediction_table'[GetIndex(o)] = prediction_table[GetIndex(o)]]_vars

\* C20 (amended): as above, but update_prediction_table leaves every entry at
\* another index as it was; a branch whose text hashes to the trained index
\* shares the entry and sees it move.
C20_TotalsAndOtherEntries ==
    [][/\ TotalsAccounting
       /\ \A b \in BranchTexts(instructions), taken \in BOOLEAN :
             BPTrain(b, taken) =>
                 /\ total' = total /\ correct' = correct
                 /\ \A i \in DOMAIN prediction_table \ {GetIndex(b)} :
                       prediction_table'[i] = prediction_table[i]
                 /\ \A o \in BranchTexts(instructions) :
                       prediction_table'[GetIndex(o)] # prediction_table[GetIndex(o)]
                           => GetIndex(o) = GetIndex(b)]_vars

\* two branches sharing a trained entry while another entry is untouched,
\* after hits and misses
C20_Witness ==
    /\ \E b, o \in BranchTexts(instructions) :
          b # o /\ GetIndex(b) = GetIndex(o) /\ CounterOf(Sim, b) = 3
    /\ total >= 3
    /\ correct >= 1
    /\ correct < total

BusyStations(stations) == {i \in RSIds : stations[i].busy}

\* C21: a dispatch stage adds at most 1 to stalls, and adds it exactly when it
\* stopped, before issue_width issues, at an instruction other than HLT for
\* which no station of its class is free or the ROB is full.  PC then stays at
\* that instruction: PC, the ROB and the busy stations have advanced by the
\* instructions issued before it and by nothing else.  The other stages leave
\* stalls alone and, but for a flush, PC too, so the next dispatch meets the
\* same instruction.
C21_CapacityStall ==
    [][/\ stage = "dispatch" =>
             LET issued == Len(dispLog') - Len(dispLog) IN
             /\ issued >= 0
             /\ pc' = pc + issued
             /\ Len(rob') = Len(rob) + issued
             /\ Cardinality(BusyStations(reservation_stations')) =
                    Cardinality(BusyStations(reservation_stations)) + issued
             /\ stalls' \in {stalls, stalls + 1}
             /\ (stalls' = stalls + 1) <=>
                    /\ ~halted
                    /\ issued < issue_width
                    /\ pc' < Len(instructions)
                    /\ InstrAt(pc').opcode # "HLT"
                    /\ \/ find_free_rs([rs |-> reservation_stations'], InstrAt(pc')) = NoRS
                       \/ Len(rob') >= rob_size
       /\ stage \in {"write_back", "execute"} => (pc' = pc /\ stalls' = stalls)
       /\ stage = "idle" => (stalls' = stalls /\ (pc' # pc => lastCommit'.flushed))]_vars

\* a three-instruction program whose last instruction stalled in two cycles
\* and was issued afterwards
C21_Witness ==
    /\ stalls >= 2
    /\ Len(instructions) = 3
    /\ Len(dispLog) = 3
    /\ flushedSeqs = {}
    /\ pc = 3

\* station i may start in the execute stage now running
MayStart(i) ==
    i \in RSCandidates(ReleaseFUs(Sim), RSDecl[i].op_type)

\* units of class t idle once the execute stage has released the finished ones
IdleUnits(t) == {k \in DOMAIN functional_units[t] : ~ReleaseFUs(Sim).fu[t][k].busy}

\* C22: same-cycle reuse.  The commit stage leaves the station of every entry
\* it retires free and the ROB shorter by the entries retired; write_back and
\* execute make no station busy and add no ROB entry; the dispatch stage of
\* the same step() issues the instruction at PC whenever a station of its
\* class is free, into the first such station.  A station whose tags are
\* empty when the execute stage begins, write_back of the same step() having
\* run before, starts in that stage if a unit of its class is idle: as many
\* stations start as there are candidates or idle units, whichever is fewer.
\* In the ADDI chain the dependent ADDI has executed by the end of cycle 3,
\* the cycle in which its producer writes back.
C22_SameCycleReuse ==
    [][/\ (stage = "idle" /\ ~finished /\ ~lastCommit'.flushed) =>
             /\ Len(rob') = Len(rob) - lastCommit'.retired
             /\ \A k \in 1..lastCommit'.retired :
                   \A i \in RSIds :
                       reservation_stations[i].rob_idx = rob[k].idx =>
                           reservation_stations'[i] = FreeRS
       /\ stage \in {"write_back", "execute"} =>
             /\ BusyStations(reservation_stations') \subseteq BusyStations(reservation_stations)
             /\ Len(rob') = Len(rob)
       /\ (/\ stage = "dispatch"
           /\ ~halted
           /\ pc < Len(instructions)
           /\ InstrAt(pc).opcode # "HLT"
           /\ find_free_rs(Sim, InstrAt(pc)) # NoRS) =>
             /\ pc' > pc
             /\ reservation_stations'[find_free_rs(Sim, InstrAt(pc))].busy
             /\ reservation_stations'[find_free_rs(Sim, InstrAt(pc))].instr = pc
       /\ stage = "execute" =>
             \A t \in DOMAIN functional_units :
                 LET cands == {i \in RSIds : RSDecl[i].op_type = t /\ MayStart(i)}
                     started == {i \in cands :
                                   reservation_stations'[i].remaining =
                                       reservation_stations[i].remaining - 1}
                 IN  Cardinality(started) = Min(Cardinality(cands), Cardinality(IdleUnits(t)))
       /\ (/\ instructions = ScenarioAddiChain.instructions
           /\ cycle = 3
           /\ stage = "execute") =>
             /\ rob[1].ready /\ ~rob[2].ready
             /\ reservation_stations[2].remaining = 1
             /\ reservation_stations'[2].remaining = 0]_vars

\* three MULs on two MUL stations: the third was issued in the step() whose
\* commit stage retired the first
C22_Witness ==
    /\ BetweenSteps
    /\ \A i \in 1..Len(instructions) : OpClass(instructions[i].opcode) = "MUL"
    /\ lastCommit.retired = 1
    /\ commitLog = <<0>>
    /\ dispLog = <<0, 1, 2>>
    /\ stalls >= 1

RegWriters == {"ADD", "SUB", "MUL", "DIV", "ADDI", "SUBI", "LD"}

ValueOf(reg) == IF reg \in IntRegs THEN int_regs[reg] ELSE fp_regs[reg]

\* positions 1..n of the ROB whose entry writes reg and is named by reg's tag
TagOwners(reg, n) ==
    {k \in 1..n :
        /\ InstrAt(rob[k].instr).opcode \in RegWriters
        /\ rob[k].dest = reg
        /\ rob[k].idx = TagOf(reg)}

\* C23: a commit stage retires the first lastCommit.retired entries of the
\* ROB and adds their number to committed.  A register is written, with the
\* entry's result, and its tag cleared exactly when one of the retired
\* register-writing entries has the register as destination and the
\* register's tag as ID; every other register keeps its value and, unless the
\* stage ends in a flush, its tag.
C23_CommitWritesOnTagMatch ==
    [][(stage = "idle" /\ ~finished) =>
          LET n == lastCommit'.retired IN
          /\ n <= Len(rob)
          /\ committed' = committed + n
          /\ commitLog' = commitLog \o [k \in 1..n |-> rob[k].idx]
          /\ \A reg \in IntRegs \cup FpRegs :
                LET owners == TagOwners(reg, n)
                    after == IF reg \in IntRegs THEN int_regs'[reg] ELSE fp_regs'[reg]
                    tagAfter == IF reg \in IntRegs THEN int_tags'[reg] ELSE fp_tags'[reg]
                IN  IF owners # {}
                    THEN /\ Cardinality(owners) = 1
                         /\ \A k \in owners : after = rob[k].result
                         /\ tagAfter = NoTag
                    ELSE /\ after = ValueOf(reg)
                         /\ tagAfter = IF lastCommit'.flushed THEN NoTag ELSE TagOf(reg)]_vars

\* the first instruction, a writer of R1, has retired while a younger
\* writer held R1's tag: R1 keeps its initial value and that tag
C23_Witness ==
    /\ AfterCommit
    /\ lastCommit.retired >= 1
    /\ commitLog = <<0>>
    /\ instructions[1].opcode \in RegWriters
    /\ instructions[1].rd = "R1"
    /\ int_regs["R1"] = Num(0)
    /\ int_tags["R1"] # NoTag
    /\ flushedSeqs = {}

AllLabelsDefined ==
    \A i \in 1..Len(instructions) :
        instructions[i].target # NoLabel => instructions[i].target \in DOMAIN labels

\* C24 (as claimed): for a program whose branch targets are all defined, once
\* the pipeline has drained every register holds the result of the last
\* retired instruction that writes it, or its initial value if none retired.
C24_FlushKeepsCommittedWrites ==
    (Drained /\ AllLabelsDefined) =>
        \A reg \in IntRegs \cup FpRegs : ValueOf(reg) = lastWritten[reg]

\* busy stations and ROB entries pair off by ROB id
StationsMatchRob(stations, entries) ==
    /\ \A i \in BusyStations(stations) :
          Cardinality({k \in 1..Len(entries) : entries[k].idx = stations[i].rob_idx}) = 1
    /\ \A k \in 1..Len(entries) :
          Cardinality({i \in BusyStations(stations) :
                          stations[i].rob_idx = entries[k].idx}) = 1
    /\ Len(entries) = Cardinality(BusyStations(stations))
    /\ Len(entries) <= Len(RSDecl)

\* C25: a busy station keeps its ROB id, and stays busy, for as long as the
\* entry it was dispatched with is in the ROB; it is free again once that
\* entry has been retired or discarded.  So after every stage, and in
\* particular between step() calls, the busy stations and the ROB entries pair
\* off one to one by ROB id and the ROB holds no more entries than there are
\* stations.
C25_StationHeldUntilCommit ==
    [][/\ StationsMatchRob(reservation_stations', rob')
       /\ \A i \in BusyStations(reservation_stations) :
             LET k == RobPos(rob, reservation_stations[i].rob_idx)
                 stays == k # 0 /\ \E j \in 1..Len(rob') : rob'[j].seq = rob[k].seq
             IN  IF stays
                 THEN /\ reservation_stations'[i].busy
                      /\ reservation_stations'[i].rob_idx = reservation_stations[i].rob_idx
                 ELSE \/ ~reservation_stations'[i].busy
                      \/ reservation_stations'[i].rob_idx # reservation_stations[i].rob_idx]_vars

\* between steps: three entries in the ROB, the head written back and its
\* station still busy
C25_Witness ==
    /\ BetweenSteps
    /\ Len(rob) >= 3
    /\ rob[1].ready
    /\ \E i \in RSIds :
          /\ reservation_stations[i].busy
          /\ reservation_stations[i].ready
          /\ reservation_stations[i].rob_idx = rob[1].idx

\* the stations whose write-back the stage now running performs, with the
\* position of their ROB entry
WritingBack ==
    {i \in RSIds : /\ \E n \in 1..Len(waiting_wb) : waiting_wb[n] = i
                   /\ reservation_stations[i].busy
                   /\ RobPos(rob, reservation_stations[i].rob_idx) # 0}

\* the tags whose numeric result the stage now running puts on the CDB
BroadcastTags ==
    {reservation_stations[i].rob_idx : i \in
        {i \in WritingBack :
            /\ reservation_stations[i].op \in RegWriters
            /\ IsNum(WBResult(Sim, i, RobPos(rob, reservation_stations[i].rob_idx)))}}

\* C26: over a write-back stage, every arithmetic or LD producer that writes
\* back has its ROB entry ready with its result; if the result is numeric, no
\* station waits on the producer's tag any more and every operand that waited
\* on it holds the result.  An SD or a branch that writes back has its ROB
\* entry ready and publishes nothing: the only operands (Vj, Vk, Qj, Qk) that
\* change in the stage are those that waited on the tag of an arithmetic or LD
\* producer.
C26_CdbBroadcast ==
    [][stage = "write_back" =>
        /\ \A i \in WritingBack :
              LET r == reservation_stations[i]
                  k == RobPos(rob, r.rob_idx)
                  result == WBResult(Sim, i, k)
              IN  /\ rob'[k].ready
                  /\ rob'[k].idx = r.rob_idx
                  /\ IF r.op \in RegWriters
                     THEN /\ rob'[k].result = result
                          /\ IsNum(result) =>
                                \A j \in RSIds :
                                    LET w == reservation_stations[j]
                                        w2 == reservation_stations'[j]
                                    IN  /\ w2.Qj # r.rob_idx
                                        /\ w2.Qk # r.rob_idx
                                        /\ w.Qj = r.rob_idx => w2.Vj = result
                                        /\ w.Qk = r.rob_idx => w2.Vk = result
                     ELSE rob'[k].result = rob[k].result
        /\ \A j \in RSIds :
              LET w == reservation_stations[j]
                  w2 == reservation_stations'[j]
              IN  /\ (w2.Vj # w.Vj \/ w2.Qj # w.Qj) => w.Qj \in BroadcastTags
                  /\ (w2.Vk # w.Vk \/ w2.Qk # w.Qk) => w.Qk \in BroadcastTags]_vars

\* after a write-back: the second instruction, dispatched in the first cycle
\* together with the first one whose register it reads, holds the first
\* one's result, which is still in the ROB
C26_Witness ==
    /\ stage = "execute"
    /\ Len(instructions) >= 2
    /\ InstrAt(0).opcode \in RegWriters
    /\ InstrAt(0).rd # "R0"
    /\ \E k \in 1..Len(rob), j \in RSIds :
          /\ rob[k].instr = 0
          /\ rob[k].ready
          /\ IsNum(rob[k].result)
          /\ reservation_stations[j].busy
          /\ reservation_stations[j].instr = 1
          /\ InstrAt(1).rt = InstrAt(0).rd
          /\ reservation_stations[j].Qk = NoTag
          /\ reservation_stations[j].Vk = rob[k].result
          /\ reservation_stations[j].Vk # ValueOf(InstrAt(0).rd)

\* station i sits in a unit of fus
BoundTo(fus, i) == \E t \in DOMAIN fus : \E k \in DOMAIN fus[t] : fus[t][k].rs = i

\* the conditions under which station i may execute
Gate(i) ==
    LET r == reservation_stations[i] IN
    /\ r.busy
    /\ r.Qj = NoTag
    /\ r.Qk = NoTag
    /\ r.remaining > 0
    /\ RSDecl[i].op_type \in {"LOAD", "STORE"} =>
          /\ RobPos(rob, r.rob_idx) # 0
          /\ rob[RobPos(rob, r.rob_idx)].address_ready

\* the execute stage now running binds station i to a unit
NewlyBound(i) == ~BoundTo(functional_units, i) /\ BoundTo(functional_units', i)

\* the execute stage now running decrements the countdown of station i
Advances(i) == reservation_stations'[i].remaining < reservation_stations[i].remaining

\* C27: in an execute stage a station is bound to a unit, or has its countdown
\* decremented, only if it is busy, both tags are empty, the countdown is > 0
\* and, for LOAD/STORE, its ROB entry has address_ready; a countdown goes down
\* by one and only for a station sitting in a unit.  Among the stations of one
\* class that may start, a later one (declaration order) starts only if every
\* earlier one does, and one that does not start keeps its countdown, every
\* unit of its class being taken.
C27_ExecuteGating ==
    [][stage = "execute" =>
        /\ \A i \in RSIds :
              /\ (NewlyBound(i) \/ Advances(i)) => Gate(i)
              /\ Advances(i) =>
                    /\ BoundTo(functional_units', i)
                    /\ reservation_stations'[i].remaining =
                           reservation_stations[i].remaining - 1
              /\ (Gate(i) /\ ~BoundTo(functional_units, i) /\ ~NewlyBound(i)) =>
                    /\ reservation_stations'[i].remaining = reservation_stations[i].remaining
                    /\ \A k \in DOMAIN functional_units'[RSDecl[i].op_type] :
                          functional_units'[RSDecl[i].op_type][k].busy
        /\ \A i, j \in RSIds :
              (/\ i < j
               /\ RSDecl[i].op_type = RSDecl[j].op_type
               /\ Gate(i) /\ ~BoundTo(functional_units, i)
               /\ Gate(j) /\ ~BoundTo(functional_units, j)
               /\ NewlyBound(j)) => NewlyBound(i)]_vars

\* after an execute stage: ADD0 and ADD1 sit in the two ADD units and have
\* counted down, ADD2 is as ready as they were and has not moved
C27_Witness ==
    /\ stage = "dispatch"
    /\ BoundTo(functional_units, 1)
    /\ BoundTo(functional_units, 2)
    /\ reservation_stations[1].remaining < reservation_stations[1].exec_cycles
    /\ reservation_stations[2].remaining < reservation_stations[2].exec_cycles
    /\ ~BoundTo(functional_units, 3)
    /\ reservation_stations[3].busy
    /\ reservation_stations[3].Qj = NoTag
    /\ reservation_stations[3].Qk = NoTag
    /\ reservation_stations[3].remaining = reservation_stations[3].exec_cycles
    /\ reservation_stations[3].remaining > 0

ArithOps == {"ADD", "ADDI", "SUB", "SUBI", "MUL", "DIV"}

\* r is the float nearest to the quotient a / b of the integers a and b,
\* b # 0: with r = sign * m * 2^e, m of Significand bits, the distance
\* between |a| and m * 2^e * |b| is at most half of 2^e * |b|
IsQuotient(r, a, b) ==
    /\ IsNum(r)
    /\ LET x == Dy(r)
           up == Significand - BitLen(x[2])
           m == Shl(x[2], up)
           e == x[3] - up
           lhs == Shl(LimbsOf(Abs(a)), 0 - e)
           rhs == LMul(m, LimbsOf(Abs(b)))
           diff == IF LLess(lhs, rhs) THEN LSub(rhs, lhs) ELSE LSub(lhs, rhs)
       IN  IF a = 0 THEN r = <<0, 1>>
           ELSE /\ x[1] = (IF (a < 0) = (b < 0) THEN 1 ELSE -1)
                /\ up >= 0
                /\ e < 0
                /\ ~LLess(LimbsOf(Abs(b)), Shl(diff, 1))

\* C28: the result a written-back arithmetic instruction left in its ROB entry
\* is, for integer operands Vj and Vk of its station, Vj+Vk for ADD/ADDI,
\* Vj-Vk for SUB/SUBI, Vj*Vk for MUL and Vj/Vk for DIV, and 0 for DIV with
\* Vk = 0; the division-by-zero program ends with R3 = 0.
C28_WriteBackArithmetic ==
    /\ \A k \in 1..Len(rob) :
          LET op == InstrAt(rob[k].instr).opcode
              i == RSOfRob(reservation_stations, rob[k].idx)
          IN  (rob[k].ready /\ op \in ArithOps) =>
                /\ i # NoRS
                /\ LET a == reservation_stations[i].Vj
                       b == reservation_stations[i].Vk
                       r == rob[k].result
                   IN  (IsSmall(a) /\ IsSmall(b) /\ a[2] = 1 /\ b[2] = 1) =>
                         CASE op \in {"ADD", "ADDI"} -> r = Num(a[1] + b[1])
                           [] op \in {"SUB", "SUBI"} -> r = Num(a[1] - b[1])
                           [] op = "MUL" -> r = Num(a[1] * b[1])
                           [] op = "DIV" -> IF b[1] = 0 THEN r = <<0, 1>>
                                            ELSE IsQuotient(r, a[1], b[1])
    /\ (instructions = ScenarioDivZero.instructions /\ Drained) =>
          int_regs["R3"] = Num(0)

\* the division-by-zero program has run to its end: the DIV has committed
C28_Witness ==
    /\ instructions = ScenarioDivZero.instructions
    /\ Drained
    /\ \E n \in 1..Len(commitLog) : commitLog[n] = 2
    /\ int_regs["R1"] = Num(10)
    /\ int_regs["R2"] = Num(0)
    /\ int_regs["R3"] = Num(0)

\* C29 (as claimed): every busy station has its opcode and a ROB id, and for
\* neither operand holds both a value and a waiting tag, whatever its class.
C29_OperandValueOrTag ==
    \A i \in RSIds :
        LET r == reservation_stations[i] IN
        r.busy =>
            /\ r.op # FreeRS.op
            /\ r.rob_idx # NoTag
            /\ ~(IsNum(r.Vj) /\ r.Qj # NoTag)
            /\ ~(IsNum(r.Vk) /\ r.Qk # NoTag)

\* C30: the ROB never holds more than rob_size entries, so that no entry is
\* added to a full ROB, and the ids of the entries in the ROB are pairwise
\* distinct, also once the id counter, which a flush does not reset, has
\* wrapped modulo 2 * rob_size.
C30_RobCapacityAndIds ==
    /\ Len(rob) <= rob_size
    /\ stage = "dispatch" => Len(dispatch(Sim).rob) <= rob_size
    /\ \A j, k \in 1..Len(rob) : j # k => rob[j].idx # rob[k].idx
    /\ next_id \in 0..(2 * rob_size - 1)

\* the id counter has wrapped after flushes: more than 2 * rob_size ids were
\* handed out, and the ROB holds a younger entry with a smaller id
C30_Witness ==
    /\ Len(dispLog) > 2 * rob_size
    /\ flushedSeqs # {}
    /\ Len(rob) >= 4
    /\ \E j, k \in 1..Len(rob) : j < k /\ rob[j].idx > rob[k].idx

\* the instruction at PC is HLT
AtHlt(p) == p < Len(instructions) /\ instructions[p + 1].opcode = "HLT"

\* C31: a dispatch stage that sets halted leaves PC at the HLT, and HLT never
\* occupies a station or a ROB entry; a dispatch stage entered with halted set
\* issues nothing, leaves PC where it is and counts no stall; halted is
\* cleared only by the flush of a commit stage, and the dispatch stage of that
\* step() then issues from the PC the flush set.
C31_Halt ==
    [][/\ (stage = "dispatch" /\ ~halted /\ halted') => AtHlt(pc')
       /\ halted' => AtHlt(pc')
       /\ \A k \in 1..Len(rob') : instructions[rob'[k].instr + 1].opcode # "HLT"
       /\ \A i \in RSIds : reservation_stations'[i].op # "HLT"
       /\ (stage = "dispatch" /\ halted) =>
             /\ halted'
             /\ pc' = pc
             /\ stalls' = stalls
             /\ rob' = rob
             /\ reservation_stations' = reservation_stations
             /\ dispLog' = dispLog
             /\ next_id' = next_id
       /\ (halted /\ ~halted') =>
             /\ stage = "idle"
             /\ lastCommit'.flushed
             /\ pc' = lastCommit'.new_pc
       /\ (stage = "dispatch" /\ lastCommit.flushed) =>
             /\ ~halted
             /\ pc = lastCommit.new_pc
             /\ rob = <<>>
             /\ (pc < Len(instructions) /\ ~AtHlt(pc)) =>
                   /\ Len(rob') >= 1
                   /\ rob'[1].instr = lastCommit.new_pc
                   /\ pc' > pc]_vars

\* the instruction behind a branch is HLT, so dispatch had halted behind the
\* branch; the branch's flush cleared halted and the dispatch stage of the
\* same step() issued the instruction at the flush's PC
C31_Witness ==
    /\ BetweenSteps
    /\ ~finished
    /\ lastCommit.flushed
    /\ AtHlt(lastCommit.minstr + 1)
    /\ ~halted
    /\ Len(rob) >= 1
    /\ rob[1].instr = lastCommit.new_pc
    /\ lastCommit.new_pc # lastCommit.minstr + 1

\* C32 (as claimed): an entry that is ready at the head of the ROB when a
\* commit stage begins is no longer in the ROB when that stage ends, whatever
\* its class.
C32_ReadyHeadLeaves ==
    [][(stage = "idle" /\ ~finished /\ Len(rob) > 0 /\ rob[1].ready) =>
          \A k \in 1..Len(rob') : rob'[k].seq # rob[1].seq]_vars

\* the entry is a resolved branch
ResolvedBranch(e) == instructions[e.instr + 1].opcode \in BranchOps /\ e.branch_outcome.set

\* C33 (as claimed): the dispatch stage issues consecutive instructions, also
\* behind a branch.  A branch resolved taken to a defined label leaves the ROB
\* only by the flush of its commit, never by retirement, so that (commit being
\* in order) nothing dispatched behind it before its commit is ever
\* committed.  A commit stage that does not flush leaves PC, the entries it
\* does not retire, their stations and the tags they own as they were.
C33_WrongPathNeverRetires ==
    [][/\ stage = "dispatch" =>
             \A k \in (Len(rob) + 1)..Len(rob') :
                 rob'[k].instr = pc + (k - Len(rob) - 1)
       /\ (stage = "idle" /\ ~finished) =>
             /\ \A k \in 1..lastCommit'.retired :
                   ResolvedBranch(rob[k]) =>
                       ~(rob[k].branch_outcome.taken /\ rob[k].branch_outcome.target # -1)
             /\ ~lastCommit'.flushed =>
                   /\ pc' = pc
                   /\ rob' = SubSeq(rob, lastCommit'.retired + 1, Len(rob))
                   /\ \A i \in RSIds :
                         (\E k \in 1..Len(rob') :
                              rob'[k].idx = reservation_stations[i].rob_idx) =>
                             reservation_stations'[i] = reservation_stations[i]
                   /\ \A r \in IntRegs \cup FpRegs :
                         (\E k \in 1..Len(rob') : rob'[k].idx = TagOf(r)) =>
                             (TagOf(r))' = TagOf(r)]_vars

====
